---- MODULE Spec2Model ----
(***************************************************************************)
(* Model of ardzz/gradient-academy-dumper: the request rate limiter of     *)
(* GradientClient, the bounded thread-pool runner run_with_concurrency_dict*)
(* the SQLite upserts of DatabaseManager and the crawl of scrape_all.      *)
(*                                                                         *)
(* Each part has its own specification over its own group of variables;    *)
(* the variables of the other parts stay at their initial values.          *)
(***************************************************************************)
EXTENDS Integers, Sequences, FiniteSets, TLC

VARIABLES
    \* ---- GradientClient._rate_limit (src/src/api/client.py) ----
    now,                \* time.time(), in ticks of a quarter second
    last_request_time,  \* GradientClient.last_request_time
    rlPc,               \* per thread: position inside _rate_limit
    current_time,       \* per thread: local current_time
    time_since_last,    \* per thread: local time_since_last
    wakeAt,             \* per thread: the time its time.sleep() may return
    calls,              \* per thread: calls of _rate_limit started so far
    grants,             \* sequence of the times written by line 35, in order
    \* ---- run_with_concurrency_dict (src/src/utils/concurrency.py) ----
    items_dict,         \* the input mapping: key -> value
    max_workers,        \* the worker bound of the ThreadPoolExecutor
    show_progress,      \* which of the two branches of the function runs
    behaviour,          \* per key: what func does ("value", "none", "raise")
    runPc,              \* position of the calling thread inside the function
    futures,            \* per key: state of the future submitted for it
    futOutcome,         \* per key: what its future holds once finished
    workQueue,          \* the executor's FIFO queue of submitted keys
    workers,            \* per pool thread: the key it executes, or Idle
    yielded,            \* keys whose future as_completed has handed out
    results,            \* the dictionary results
    progress,           \* the advance count of the progress task
    invoked,            \* per key: number of invocations of func started
    \* ---- DatabaseManager (src/src/db/manager.py) ----
    courses,            \* rows of table courses
    chapters,           \* rows of table chapters
    subchapters,        \* rows of table subchapters
    videos,             \* rows of table videos
    lecturers,          \* rows of table lecturers
    video_lecturers,    \* rows of table video_lecturers
    books,              \* rows of table books
    lastOp,             \* the last insert_* call: table, row, whether sqlite
                        \* raised, the return value, the rows it deleted
    opCount,            \* insert_* calls made so far
    \* ---- scrape_all and the scrapers (src/src/main.py, src/src/scraper) ----
    main,               \* the orchestrator thread: pc, course index ci,
                        \* chapter index chi, loop index ii
    courseList,         \* courses, as returned by scrape_courses
    content,            \* content, as returned by scrape_course_content
    subList,            \* subchapters, as returned by scrape_subchapters
    task,               \* per pooled key: pc, detail and lecturer index of
                        \* its scrape_subchapter_detail call
    fetchLog,           \* the API requests made: kind, key, issuing thread,
                        \* outcome, and n for the n-th request of that key
    failedUpserts,      \* <<table, row>> of the insert_* calls that failed
    faults,             \* failing requests and failing upserts so far
    execution,          \* which execution of scrape_all on the database file
    afterFirst,         \* the tables as the first execution left them
    \* ---- DatabaseManager.get_connection (src/src/db/manager.py) ----
    local,              \* per thread: attribute conn of self._local
    connPc,             \* per thread: position inside a DatabaseManager call
    held,               \* per thread: the connection get_connection returned
    opened,             \* sqlite3.connect calls made so far
    closed,             \* the connections closed so far
    usedBy,             \* <<thread, connection>> for every use of a connection
    \* ---- main (src/src/main.py) ----
    cli,                \* the process: position in main(), the parsed
                        \* command, whether API_TOKEN is set, and what the
                        \* process has done so far
    dbFile,             \* whether the file DB_PATH exists
    upstream,           \* the revision of the videos the API serves
    \* ---- VideoDownloader (src/src/downloader/video.py) ----
    listing,            \* videos, as get_course_videos returned them
    dl,                 \* download_course_videos: position, loop index,
                        \* the two settings, locals of the iteration,
                        \* the count of the progress bar
    files,              \* the output paths that exist on the local disk
    dlLog               \* the ffmpeg, rclone and unlink calls made, in order

rlVars == <<now, last_request_time, rlPc, current_time, time_since_last,
            wakeAt, calls, grants>>

runVars == <<items_dict, max_workers, show_progress, behaviour, runPc, futures,
             futOutcome, workQueue, workers, yielded, results, progress, invoked>>

tables == <<courses, chapters, subchapters, videos, lecturers,
            video_lecturers, books>>

dbVars == <<tables, lastOp, opCount>>

crawlVars == <<main, courseList, content, subList, task, fetchLog,
               failedUpserts, faults>>

rerunVars == <<execution, afterFirst>>

connVars == <<local, connPc, held, opened, closed, usedBy>>

cliVars == <<cli, dbFile, upstream>>

dlVars == <<listing, dl, files, dlLog>>

vars == <<rlVars, runVars, dbVars, crawlVars, rerunVars, connVars, cliVars,
          dlVars>>

otherThanRL == <<runVars, dbVars, crawlVars, rerunVars, connVars, cliVars,
                 dlVars>>
otherThanRun == <<rlVars, dbVars, crawlVars, rerunVars, connVars, cliVars,
                  dlVars>>
otherThanDb == <<rlVars, runVars, crawlVars, rerunVars, connVars, cliVars,
                 dlVars>>
otherThanConn == <<rlVars, runVars, dbVars, crawlVars, rerunVars, cliVars,
                   dlVars>>
otherThanDl == <<rlVars, runVars, dbVars, crawlVars, rerunVars, connVars,
                 cliVars>>

(* What a step of the scrapers and of the runner inside scrape_all leaves
   alone *)
outsideCrawl == <<rlVars, rerunVars, connVars, cliVars, dlVars>>

----------------------------------------------------------------------------
(* Bounds of the model *)
NumThreads == 2     \* worker threads sharing one GradientClient
MaxCalls == 2       \* calls of request() per thread
MaxTicks == 5       \* ticks the clock advances

(* Program constants *)
MinInterval == 2    \* 0.5 s between requests, in quarter-second ticks

Threads == 1..NumThreads

(* time.time() at construction is far past the epoch: the first call never
   sleeps, because last_request_time starts at 0. *)
StartTime == MinInterval

----------------------------------------------------------------------------
(* GradientClient.__init__ and the threads before their first request *)
RLInit ==
    /\ now = StartTime
    /\ last_request_time = 0
    /\ rlPc = [t \in Threads |-> "idle"]
    /\ current_time = [t \in Threads |-> 0]
    /\ time_since_last = [t \in Threads |-> 0]
    /\ wakeAt = [t \in Threads |-> 0]
    /\ calls = [t \in Threads |-> 0]
    /\ grants = <<>>

(* The wall clock advances, whatever the threads are doing. *)
Tick ==
    /\ now < StartTime + MaxTicks
    /\ now' = now + 1
    /\ UNCHANGED <<last_request_time, rlPc, current_time, time_since_last,
                   wakeAt, calls, grants>>
    /\ UNCHANGED otherThanRL

(* request() enters _rate_limit; line 31: current_time = time.time() *)
RLReadClock(t) ==
    /\ rlPc[t] = "idle"
    /\ calls[t] < MaxCalls
    /\ calls' = [calls EXCEPT ![t] = @ + 1]
    /\ current_time' = [current_time EXCEPT ![t] = now]
    /\ rlPc' = [rlPc EXCEPT ![t] = "read_last"]
    /\ UNCHANGED <<now, last_request_time, time_since_last, wakeAt, grants>>
    /\ UNCHANGED otherThanRL

(* line 32: time_since_last = current_time - self.last_request_time *)
RLReadLast(t) ==
    /\ rlPc[t] = "read_last"
    /\ time_since_last' = [time_since_last EXCEPT
                             ![t] = current_time[t] - last_request_time]
    /\ rlPc' = [rlPc EXCEPT ![t] = "test"]
    /\ UNCHANGED <<now, last_request_time, current_time, wakeAt, calls, grants>>
    /\ UNCHANGED otherThanRL

(* lines 33-34: if time_since_last < 0.5: time.sleep(0.5 - time_since_last) *)
RLTest(t) ==
    /\ rlPc[t] = "test"
    /\ IF time_since_last[t] < MinInterval
         THEN /\ wakeAt' = [wakeAt EXCEPT
                              ![t] = now + (MinInterval - time_since_last[t])]
              /\ rlPc' = [rlPc EXCEPT ![t] = "sleep"]
         ELSE /\ rlPc' = [rlPc EXCEPT ![t] = "stamp"]
              /\ UNCHANGED wakeAt
    /\ UNCHANGED <<now, last_request_time, current_time, time_since_last,
                   calls, grants>>
    /\ UNCHANGED otherThanRL

(* time.sleep returns once the requested time has passed *)
RLWake(t) ==
    /\ rlPc[t] = "sleep"
    /\ now >= wakeAt[t]
    /\ rlPc' = [rlPc EXCEPT ![t] = "stamp"]
    /\ UNCHANGED <<now, last_request_time, current_time, time_since_last,
                   wakeAt, calls, grants>>
    /\ UNCHANGED otherThanRL

(* line 35: self.last_request_time = time.time(); the request goes out *)
RLStamp(t) ==
    /\ rlPc[t] = "stamp"
    /\ last_request_time' = now
    /\ grants' = Append(grants, now)
    /\ rlPc' = [rlPc EXCEPT ![t] = "idle"]
    /\ UNCHANGED <<now, current_time, time_since_last, wakeAt, calls>>
    /\ UNCHANGED otherThanRL

RLNext ==
    \/ Tick
    \/ \E t \in Threads : RLReadClock(t)
    \/ \E t \in Threads : RLReadLast(t)
    \/ \E t \in Threads : RLTest(t)
    \/ \E t \in Threads : RLWake(t)
    \/ \E t \in Threads : RLStamp(t)

----------------------------------------------------------------------------
(* run_with_concurrency_dict *)

MaxItems == 3           \* entries of items_dict
MaxWorkerBound == 3     \* largest max_workers tried

Idle == 0               \* a pool thread that executes nothing
None == <<"None">>       \* Python's None
Behaviours == {"value", "none", "raise"}

(* The input value stored under key k: enumerate() in the callers gives each
   entry its own value. *)
ItemValue(k) == <<"item", k>>

(* func(value): the processing function's result for a value *)
Func(v) == <<"result", v>>

(* What the call func(items_dict[k]) does: return a result, return None, or
   raise. *)
FuncOutcome(k) ==
    CASE behaviour[k] = "raise" -> <<"exception", k>>
      [] behaviour[k] = "none"  -> None
      [] OTHER                  -> Func(items_dict[k])

IsException(o) == o[1] = "exception"

Keys == DOMAIN items_dict

(* Invocations of func that have started and not finished *)
InFlight == {w \in DOMAIN workers : workers[w] # Idle}

(* No call in progress: the state the other specifications keep. *)
RunIdle ==
    /\ items_dict = <<>>
    /\ max_workers = 1
    /\ show_progress = FALSE
    /\ behaviour = <<>>
    /\ runPc = "idle"
    /\ futures = <<>>
    /\ futOutcome = <<>>
    /\ workQueue = <<>>
    /\ workers = <<>>
    /\ yielded = {}
    /\ results = <<>>
    /\ progress = 0
    /\ invoked = <<>>

(* A call with n entries, keyed 1..n in insertion order *)
RunInit ==
    /\ \E n \in 0..MaxItems :
         /\ items_dict = [k \in 1..n |-> ItemValue(k)]
         /\ behaviour \in [1..n -> Behaviours]
         /\ futures = [k \in 1..n |-> "unsubmitted"]
         /\ futOutcome = [k \in 1..n |-> None]
         /\ invoked = [k \in 1..n |-> 0]
    /\ max_workers \in 1..MaxWorkerBound
    /\ show_progress \in BOOLEAN
    /\ runPc = "start"
    /\ workQueue = <<>>
    /\ workers = <<>>
    /\ yielded = {}
    /\ results = <<>>
    /\ progress = 0

EntersPoolAnyway == "submit"

(* lines 85-86: if not items_dict: return results *)
AfterEmptyTest == IF Keys = {} THEN "returned" ELSE "submit"

(* lines 82-86: results = {}; if not items_dict: return results *)
RunEnter ==
    /\ runPc = "start"
    /\ results' = <<>>
    /\ runPc' = AfterEmptyTest
    /\ UNCHANGED <<items_dict, max_workers, show_progress, behaviour, futures,
                   futOutcome, workQueue, workers, yielded, progress, invoked>>

MaySpawnUnbounded == TRUE

(* ThreadPoolExecutor.submit starts another thread only below max_workers *)
MaySpawn == Len(workers) < max_workers

(* lines 94-98 / 112-116: executor.submit(func, value) for the next entry of
   items_dict.items(); after the last one the loop over as_completed starts *)
RunSubmit ==
    /\ runPc = "submit"
    /\ LET todo == {k \in Keys : futures[k] = "unsubmitted"}
           k == CHOOSE x \in todo : \A y \in todo : x <= y
       IN /\ futures' = [futures EXCEPT ![k] = "pending"]
          /\ workQueue' = Append(workQueue, k)
          /\ workers' = IF MaySpawn THEN Append(workers, Idle) ELSE workers
          /\ runPc' = IF todo = {k} THEN "collect" ELSE "submit"
    /\ UNCHANGED <<items_dict, max_workers, show_progress, behaviour,
                   futOutcome, yielded, results, progress, invoked>>

(* a pool thread takes the oldest queued work item and calls func *)
RunWorkerStart(w) ==
    /\ w \in DOMAIN workers
    /\ workers[w] = Idle
    /\ workQueue # <<>>
    /\ LET k == Head(workQueue)
       IN /\ workers' = [workers EXCEPT ![w] = k]
          /\ futures' = [futures EXCEPT ![k] = "running"]
          /\ invoked' = [invoked EXCEPT ![k] = @ + 1]
    /\ workQueue' = Tail(workQueue)
    /\ UNCHANGED <<items_dict, max_workers, show_progress, behaviour, runPc,
                   futOutcome, yielded, results, progress>>

(* func returns or raises on pool thread w with outcome o; the future holds
   the outcome *)
RunWorkerFinish(w, o) ==
    /\ w \in DOMAIN workers
    /\ workers[w] # Idle
    /\ LET k == workers[w]
       IN /\ futures' = [futures EXCEPT ![k] = "finished"]
          /\ futOutcome' = [futOutcome EXCEPT ![k] = o]
    /\ workers' = [workers EXCEPT ![w] = Idle]
    /\ UNCHANGED <<items_dict, max_workers, show_progress, behaviour, runPc,
                   workQueue, yielded, results, progress, invoked>>

CollectedUnlessFalsy(k) ==
    IF IsException(futOutcome[k]) \/ futOutcome[k] = None
      THEN results
      ELSE (k :> futOutcome[k]) @@ results

(* lines 102-106 / 120-123: result = future.result(); results[key] = result;
   except Exception: print. The dictionary after the future of k is handled. *)
Collected(k) ==
    IF IsException(futOutcome[k])
      THEN results
      ELSE (k :> futOutcome[k]) @@ results

PropagatesUncaught(k) == TRUE

(* lines 105 / 122: except Exception catches whatever func raised *)
Propagates(k) == FALSE

AdvancedOnSuccess(k) ==
    IF IsException(futOutcome[k]) THEN progress ELSE progress + 1

(* lines 107-108: finally: progress.update(task, advance=1) *)
Advanced(k) == progress + 1

(* lines 100-108 / 118-123: one iteration of "for future in as_completed" *)
RunCollect(k) ==
    /\ runPc = "collect"
    /\ k \in Keys \ yielded
    /\ futures[k] = "finished"
    /\ yielded' = yielded \cup {k}
    /\ IF IsException(futOutcome[k]) /\ Propagates(k)
         THEN /\ runPc' = "raised"
              /\ UNCHANGED results
         ELSE /\ runPc' = runPc
              /\ results' = Collected(k)
    /\ progress' = IF show_progress THEN Advanced(k) ELSE progress
    /\ UNCHANGED <<items_dict, max_workers, show_progress, behaviour, futures,
                   futOutcome, workQueue, workers, invoked>>

ReturnsWithoutWaiting == TRUE

(* as_completed has handed out every future, which it does only once the
   future is finished, and the executor's shutdown(wait=True) at the end of
   the with block has seen its threads idle *)
Drained == yielded = Keys /\ InFlight = {}

(* as_completed is exhausted, the with blocks exit (the executor's shutdown
   waits for its threads), line 125: return results *)
RunReturn ==
    /\ runPc = "collect"
    /\ Drained
    /\ runPc' = "returned"
    /\ UNCHANGED <<items_dict, max_workers, show_progress, behaviour, futures,
                   futOutcome, workQueue, workers, yielded, results, progress,
                   invoked>>

(* The runner called on its own, with an abstract processing function *)
Enter == RunEnter /\ UNCHANGED otherThanRun
Submit == RunSubmit /\ UNCHANGED otherThanRun
WorkerStart == \E w \in DOMAIN workers : RunWorkerStart(w) /\ UNCHANGED otherThanRun
WorkerFinish ==
    \E w \in DOMAIN workers :
        /\ workers[w] # Idle
        /\ RunWorkerFinish(w, FuncOutcome(workers[w]))
        /\ UNCHANGED otherThanRun
Collect == \E k \in Keys : RunCollect(k) /\ UNCHANGED otherThanRun
Return == RunReturn /\ UNCHANGED otherThanRun

RunNext ==
    \/ Enter
    \/ Submit
    \/ WorkerStart
    \/ WorkerFinish
    \/ Collect
    \/ Return

----------------------------------------------------------------------------
(* DatabaseManager: the schema of setup_database and the insert_* upserts *)

MaxOps == 2             \* insert_* calls in one behaviour

Ids == {"a", "b"}       \* primary ids, also used as references
Slugs == {"x", "y"}
Texts == {"t1", "t2"}   \* values of the other columns
Orders == {0, 1}

(* The records the scrapers pass in (model_dump() of the API models, and the
   raw book dictionaries) *)
CourseDicts == [id : Ids, course_name : Texts, slug : Slugs, cover : Texts]
ChapterDicts == [chapter_id : Ids, chapter_name : Texts, order : Orders]
SubchapterDicts == [id : Ids, subchapter_slug : Slugs, order : Orders]
VideoDicts == [id : Ids, video_url : Texts]
LecturerDicts == [id : Ids, name : Texts]
BookDicts == [slug : Slugs, title : Texts]

(* The VALUES tuples of the INSERT statements, by column *)
CourseRow(course) ==
    [id |-> course.id, course_name |-> course.course_name,
     slug |-> course.slug, cover_url |-> course.cover]
ChapterRow(chapter, course_id) ==
    [id |-> chapter.chapter_id, course_id |-> course_id,
     chapter_name |-> chapter.chapter_name, order_index |-> chapter.order]
SubchapterRow(subchapter, chapter_id) ==
    [id |-> subchapter.id, chapter_id |-> chapter_id,
     subchapter_slug |-> subchapter.subchapter_slug,
     order_index |-> subchapter.order]
VideoRowUnlinked(video, subchapter_id) ==
    [id |-> video.id, video_url |-> video.video_url, subchapter_id |-> None]

VideoRow(video, subchapter_id) ==
    [id |-> video.id, subchapter_id |-> subchapter_id,
     video_url |-> video.video_url]
LecturerRow(lecturer) == [id |-> lecturer.id, name |-> lecturer.name]
VideoLecturerRow(video_id, lecturer_id) ==
    [video_id |-> video_id, lecturer_id |-> lecturer_id]
BookRow(book, course_id) ==
    [slug |-> book.slug, title |-> book.title, course_id |-> course_id]

(* The primary key of a row of table t (PRIMARY KEY of setup_database) *)
PrimaryKey(t, r) ==
    CASE t = "video_lecturers" -> <<r.video_id, r.lecturer_id>>
      [] t = "books"           -> <<r.slug>>
      [] OTHER                 -> <<r.id>>

(* Whether the stored row r violates a PRIMARY KEY or UNIQUE constraint of
   table t against the row new: courses.slug and
   subchapters.subchapter_slug are UNIQUE. *)
Conflicts(t, r, new) ==
    \/ PrimaryKey(t, r) = PrimaryKey(t, new)
    \/ t = "courses" /\ r.slug = new.slug
    \/ t = "subchapters" /\ r.subchapter_slug = new.subchapter_slug

UpsertKeepingOld(t, table, new) ==
    IF \E r \in table : Conflicts(t, r, new) THEN table ELSE table \cup {new}

UpsertDeletingOnly(t, table, new) ==
    IF \E r \in table : Conflicts(t, r, new)
      THEN {r \in table : ~Conflicts(t, r, new)}
      ELSE table \cup {new}

UpsertMixing(t, table, new) ==
    {r \in table : ~Conflicts(t, r, new)} \cup
    (IF t = "videos" /\ \E r \in table : Conflicts(t, r, new)
       THEN {[new EXCEPT !.video_url = r.video_url] :
               r \in {q \in table : Conflicts(t, q, new)}}
       ELSE {new})

(* INSERT OR REPLACE INTO t ... VALUES new: the rows that conflict with the
   new row are deleted, then the new row is inserted. *)
Upsert(t, table, new) ==
    {r \in table : ~Conflicts(t, r, new)} \cup {new}

FailedUpsertHalfDone(t, table, new) ==
    {r \in table : ~Conflicts(t, r, new)}

(* The statement or the commit raised sqlite3.Error: "with conn" rolls the
   transaction back. *)
FailedUpsert(t, table, new) == table

TableNames == {"courses", "chapters", "subchapters", "videos", "lecturers",
               "video_lecturers", "books"}

TableOf(t) ==
    CASE t = "courses" -> courses
      [] t = "chapters" -> chapters
      [] t = "subchapters" -> subchapters
      [] t = "videos" -> videos
      [] t = "lecturers" -> lecturers
      [] t = "video_lecturers" -> video_lecturers
      [] t = "books" -> books

(* setup_database on a new database file: every table exists and is empty *)
DbInit ==
    /\ courses = {}
    /\ chapters = {}
    /\ subchapters = {}
    /\ videos = {}
    /\ lecturers = {}
    /\ video_lecturers = {}
    /\ books = {}
    /\ lastOp = [table |-> "none", row |-> <<>>, error |-> FALSE,
                 result |-> "none", deleted |-> {}]
    /\ opCount = 0

(* The tables after the statement of an insert_* call on table t; ok tells
   whether execute and commit went through. *)
Stored(t, new, ok) ==
    IF ok THEN Upsert(t, TableOf(t), new) ELSE FailedUpsert(t, TableOf(t), new)

(* return True after the commit; except sqlite3.Error: return False *)
Returned(ok) == IF ok THEN "True" ELSE "False"

(* One insert_* call: try / with get_connection / execute / commit / return *)
DbInsert(t, new, ok) ==
    /\ courses' = IF t = "courses" THEN Stored(t, new, ok) ELSE courses
    /\ chapters' = IF t = "chapters" THEN Stored(t, new, ok) ELSE chapters
    /\ subchapters' = IF t = "subchapters" THEN Stored(t, new, ok)
                                           ELSE subchapters
    /\ videos' = IF t = "videos" THEN Stored(t, new, ok) ELSE videos
    /\ lecturers' = IF t = "lecturers" THEN Stored(t, new, ok) ELSE lecturers
    /\ video_lecturers' = IF t = "video_lecturers" THEN Stored(t, new, ok)
                                                   ELSE video_lecturers
    /\ books' = IF t = "books" THEN Stored(t, new, ok) ELSE books
    /\ lastOp' = [table |-> t, row |-> new, error |-> ~ok,
                  result |-> Returned(ok),
                  deleted |-> TableOf(t) \ Stored(t, new, ok)]

(* The insert_* methods called on their own; ok = FALSE is a storage error *)
DbCounted ==
    /\ opCount < MaxOps
    /\ opCount' = opCount + 1

insert_course ==
    \E course \in CourseDicts, ok \in BOOLEAN :
        /\ DbCounted
        /\ DbInsert("courses", CourseRow(course), ok)
        /\ UNCHANGED otherThanDb
insert_chapter ==
    \E chapter \in ChapterDicts, course_id \in Slugs, ok \in BOOLEAN :
        /\ DbCounted
        /\ DbInsert("chapters", ChapterRow(chapter, course_id), ok)
        /\ UNCHANGED otherThanDb
insert_subchapter ==
    \E subchapter \in SubchapterDicts, chapter_id \in Ids, ok \in BOOLEAN :
        /\ DbCounted
        /\ DbInsert("subchapters", SubchapterRow(subchapter, chapter_id), ok)
        /\ UNCHANGED otherThanDb
insert_video ==
    \E video \in VideoDicts, subchapter_id \in Ids, ok \in BOOLEAN :
        /\ DbCounted
        /\ DbInsert("videos", VideoRow(video, subchapter_id), ok)
        /\ UNCHANGED otherThanDb
insert_lecturer ==
    \E lecturer \in LecturerDicts, ok \in BOOLEAN :
        /\ DbCounted
        /\ DbInsert("lecturers", LecturerRow(lecturer), ok)
        /\ UNCHANGED otherThanDb
insert_video_lecturer ==
    \E video_id \in Ids, lecturer_id \in Ids, ok \in BOOLEAN :
        /\ DbCounted
        /\ DbInsert("video_lecturers", VideoLecturerRow(video_id, lecturer_id), ok)
        /\ UNCHANGED otherThanDb
insert_book ==
    \E book \in BookDicts, course_id \in Slugs, ok \in BOOLEAN :
        /\ DbCounted
        /\ DbInsert("books", BookRow(book, course_id), ok)
        /\ UNCHANGED otherThanDb

DbNext ==
    \/ insert_course
    \/ insert_chapter
    \/ insert_subchapter
    \/ insert_video
    \/ insert_lecturer
    \/ insert_video_lecturer
    \/ insert_book

----------------------------------------------------------------------------
(* The API the crawl runs against: two courses; the first has two chapters
   and a book, the second one chapter; the chapters have two subchapters
   each, and a subchapter's detail has a video with its lecturers, except the
   last subchapter of the second course, which has no video. *)

MaxFaults == 1          \* failing requests and upserts injected in one crawl

(* An Optional[...] value that is None, or that holds the record x *)
Absent == <<>>
Present(x) == <<x>>
The(o) == o[1]

ApiCourse(i) ==
    [id |-> <<"course", i>>, course_name |-> <<"name", i>>,
     slug |-> <<"course-slug", i>>, cover |-> <<"cover", i>>]
ApiCourses == [i \in 1..2 |-> ApiCourse(i)]

ApiChapter(i, j) ==
    [chapter_id |-> <<"chapter", i, j>>, chapter_name |-> <<"name", i, j>>,
     order |-> j]
ApiChapters(course_slug) ==
    LET i == course_slug[2]
    IN [j \in 1..(IF i = 1 THEN 2 ELSE 1) |-> ApiChapter(i, j)]
ApiBooks(course_slug) ==
    LET i == course_slug[2]
    IN IF i = 1 THEN <<[slug |-> <<"book-slug", i>>, title |-> <<"title", i>>]>>
                ELSE <<>>

ApiSubchapter(i, j, k) ==
    [id |-> <<"subchapter", i, j, k>>,
     subchapter_slug |-> <<"subchapter-slug", i, j, k>>, order |-> k]
ApiSubchapters(chapter_id) ==
    [k \in 1..2 |-> ApiSubchapter(chapter_id[2], chapter_id[3], k)]

ApiLecturer(l) == [id |-> <<"lecturer", l>>, name |-> <<"name", l>>]
ApiVideo(i, j, k) ==
    [id |-> <<"video", i, j, k, upstream>>, video_url |-> <<"url", i, j, k>>,
     lecturers |-> IF k = 1 THEN <<ApiLecturer(1)>>
                            ELSE <<ApiLecturer(1), ApiLecturer(2)>>]
ApiDetail(course_slug, subchapter_slug) ==
    LET i == subchapter_slug[2]
        j == subchapter_slug[3]
        k == subchapter_slug[4]
    IN [id |-> <<"subchapter", i, j, k>>,
        video |-> IF i = 2 /\ k = 2 THEN Absent
                                     ELSE Present(ApiVideo(i, j, k))]

(* How a request ends: a validated payload, an httpx error raised by
   request(), or a payload that fails model_validate *)
Outcomes == {"ok", "raise", "invalid"}

(* The kind of thread a step runs on: the orchestrator's, or thread w of the
   pool *)
MainThread == "main"
PoolThread(w) == "pool"

ContentThreadPooled == PoolThread(1)

(* scrape_all calls scrape_course_content in its own for loop *)
ContentThread == MainThread

NoContent == [chapters |-> <<>>, books |-> <<>>]

(* scrape_all before its first statement, on a new database *)
CrawlInit ==
    /\ main = [pc |-> "start", ci |-> 0, chi |-> 0, ii |-> 0]
    /\ courseList = <<>>
    /\ content = NoContent
    /\ subList = <<>>
    /\ task = <<>>
    /\ fetchLog = {}
    /\ failedUpserts = {}
    /\ faults = 0

(* scrape_all not running: the state the other specifications keep *)
CrawlIdle ==
    /\ main = [pc |-> "idle", ci |-> 0, chi |-> 0, ii |-> 0]
    /\ courseList = <<>>
    /\ content = NoContent
    /\ subList = <<>>
    /\ task = <<>>
    /\ fetchLog = {}
    /\ failedUpserts = {}
    /\ faults = 0

(* One request of GradientClient issued by thread th *)
Fetch(kind, key, th, o) ==
    /\ o # "ok" => faults < MaxFaults
    /\ faults' = IF o = "ok" THEN faults ELSE faults + 1
    /\ fetchLog' = fetchLog \cup
          {[kind |-> kind, key |-> key, thread |-> th, outcome |-> o,
            n |-> 1 + Cardinality({e \in fetchLog :
                                     e.kind = kind /\ e.key = key})]}
    /\ UNCHANGED <<failedUpserts, dbVars>>

(* One insert_* call made by a scraper; its return value is ignored *)
InsertStep(t, row) ==
    \E ok \in BOOLEAN :
        /\ ~ok => faults < MaxFaults
        /\ faults' = IF ok THEN faults ELSE faults + 1
        /\ failedUpserts' = IF ok THEN failedUpserts
                                  ELSE failedUpserts \cup {<<t, row>>}
        /\ DbInsert(t, row, ok)
        /\ UNCHANGED <<opCount, fetchLog>>

ExceptionEscapes(kind) == TRUE

EscapesFromContent(kind) == kind = "content"

(* Whether an exception raised by the request of this kind leaves the
   scraper method: scrape_courses, scrape_course_content and
   scrape_subchapters end in "except Exception", get_subchapter_detail
   catches httpx.HTTPError itself. *)
Escapes(kind) == FALSE

(* The orchestrator after the branch of chapter chi of course ci *)
AfterCourse(ci) ==
    IF ci < Len(courseList)
      THEN [pc |-> "content", ci |-> ci + 1, chi |-> 0, ii |-> 0]
      ELSE [pc |-> "close", ci |-> ci, chi |-> 0, ii |-> 0]
AfterChapter(ci, chi, chs) ==
    IF chi < Len(chs)
      THEN [pc |-> "subchapters", ci |-> ci, chi |-> chi + 1, ii |-> 0]
      ELSE AfterCourse(ci)
Aborted == [pc |-> "aborted", ci |-> 0, chi |-> 0, ii |-> 0]

(* scrape_courses, lines 21-30: the request and the "not courses" test *)
ScrapeCourses ==
    /\ main.pc = "start"
    /\ \E o \in Outcomes :
         /\ Fetch("courses", <<>>, MainThread, o)
         /\ courseList' = IF o = "ok" THEN ApiCourses ELSE <<>>
         /\ main' = IF o = "raise" /\ Escapes("courses") THEN Aborted
                    ELSE IF o = "ok" /\ ApiCourses # <<>>
                      THEN [main EXCEPT !.pc = "insert_courses", !.ii = 1]
                      ELSE AfterCourse(0)
    /\ UNCHANGED <<content, subList, task, runVars, outsideCrawl>>

(* scrape_courses, lines 32-35: one turn of the loop over the courses *)
InsertCourses ==
    /\ main.pc = "insert_courses"
    /\ InsertStep("courses", CourseRow(courseList[main.ii]))
    /\ main' = IF main.ii < Len(courseList)
                 THEN [main EXCEPT !.ii = @ + 1]
                 ELSE AfterCourse(0)
    /\ UNCHANGED <<courseList, content, subList, task, runVars, outsideCrawl>>

Course == courseList[main.ci]

(* The orchestrator after the request of scrape_course_content *)
AfterContentFetch(c) ==
    IF c.chapters # <<>> THEN [main EXCEPT !.pc = "insert_chapters", !.ii = 1]
    ELSE IF c.books # <<>> THEN [main EXCEPT !.pc = "insert_books", !.ii = 1]
    ELSE AfterChapter(main.ci, 0, c.chapters)

(* scrape_course_content, lines 45-47: the request for the current course *)
ScrapeCourseContent ==
    /\ main.pc = "content"
    /\ \E o \in Outcomes :
         /\ Fetch("content", Course.slug, ContentThread, o)
         /\ LET c == IF o = "ok"
                       THEN [chapters |-> ApiChapters(Course.slug),
                             books |-> ApiBooks(Course.slug)]
                       ELSE NoContent
            IN /\ content' = c
               /\ main' = IF o = "raise" /\ Escapes("content") THEN Aborted
                          ELSE AfterContentFetch(c)
    /\ UNCHANGED <<courseList, subList, task, runVars, outsideCrawl>>

(* scrape_course_content, lines 55-58: one turn of the loop over chapters;
   the course's slug is passed as course_id *)
InsertChapters ==
    /\ main.pc = "insert_chapters"
    /\ InsertStep("chapters", ChapterRow(content.chapters[main.ii], Course.slug))
    /\ main' = IF main.ii < Len(content.chapters)
                 THEN [main EXCEPT !.ii = @ + 1]
               ELSE IF content.books # <<>>
                 THEN [main EXCEPT !.pc = "insert_books", !.ii = 1]
                 ELSE AfterChapter(main.ci, 0, content.chapters)
    /\ UNCHANGED <<courseList, content, subList, task, runVars, outsideCrawl>>

(* scrape_course_content, lines 61-63: one turn of the loop over books *)
InsertBooks ==
    /\ main.pc = "insert_books"
    /\ InsertStep("books", BookRow(content.books[main.ii], Course.slug))
    /\ main' = IF main.ii < Len(content.books)
                 THEN [main EXCEPT !.ii = @ + 1]
                 ELSE AfterChapter(main.ci, 0, content.chapters)
    /\ UNCHANGED <<courseList, content, subList, task, runVars, outsideCrawl>>

Chapter == content.chapters[main.chi]

SubchaptersReturnedAnyway(o, chapter_id) == ApiSubchapters(chapter_id)

(* What get_subchapters hands to scrape_subchapters: the validated list, or
   [] after a ValidationError; a raising request ends scrape_subchapters in
   its except clause, which returns [] *)
SubchaptersReturned(o, chapter_id) ==
    IF o = "ok" THEN ApiSubchapters(chapter_id) ELSE <<>>

(* scrape_subchapters, lines 21-26: the request for the current chapter *)
ScrapeSubchapters ==
    /\ main.pc = "subchapters"
    /\ \E o \in Outcomes :
         /\ Fetch("subchapters", Chapter.chapter_id, MainThread, o)
         /\ LET subs == SubchaptersReturned(o, Chapter.chapter_id)
            IN /\ subList' = subs
               /\ main' = IF o = "raise" /\ Escapes("subchapters") THEN Aborted
                          ELSE IF subs # <<>>
                            THEN [main EXCEPT !.pc = "insert_subchapters",
                                              !.ii = 1]
                            ELSE AfterChapter(main.ci, main.chi,
                                              content.chapters)
    /\ UNCHANGED <<courseList, content, task, runVars, outsideCrawl>>

(* scrape_subchapters, lines 31-34: one turn of the loop over subchapters *)
InsertSubchapters ==
    /\ main.pc = "insert_subchapters"
    /\ InsertStep("subchapters",
                  SubchapterRow(subList[main.ii], Chapter.chapter_id))
    /\ main' = IF main.ii < Len(subList)
                 THEN [main EXCEPT !.ii = @ + 1]
                 ELSE [main EXCEPT !.pc = "call_runner", !.ii = 0]
    /\ UNCHANGED <<courseList, content, subList, task, runVars, outsideCrawl>>

(* scrape_chapter_subchapters_with_details, lines 88-95: the call of
   run_with_concurrency_dict on enumerate(subchapters), with the default
   max_workers and show_progress=True *)
CallRunner ==
    /\ main.pc = "call_runner"
    /\ main' = [main EXCEPT !.pc = "in_runner"]
    /\ runPc' = "start"
    /\ items_dict' = subList
    /\ show_progress' = TRUE
    /\ futures' = [k \in DOMAIN subList |-> "unsubmitted"]
    /\ futOutcome' = [k \in DOMAIN subList |-> None]
    /\ invoked' = [k \in DOMAIN subList |-> 0]
    /\ task' = [k \in DOMAIN subList |-> [pc |-> "queued", detail |-> Absent,
                                          li |-> 0]]
    /\ workQueue' = <<>>
    /\ workers' = <<>>
    /\ yielded' = {}
    /\ results' = <<>>
    /\ progress' = 0
    /\ UNCHANGED <<max_workers, behaviour, courseList, content, subList,
                   fetchLog, failedUpserts, faults, dbVars, outsideCrawl>>

(* The steps of run_with_concurrency_dict made by the orchestrator thread *)
PoolEnter ==
    /\ main.pc = "in_runner"
    /\ RunEnter
    /\ UNCHANGED <<crawlVars, dbVars, outsideCrawl>>
PoolSubmit ==
    /\ main.pc = "in_runner"
    /\ RunSubmit
    /\ UNCHANGED <<crawlVars, dbVars, outsideCrawl>>
PoolCollect ==
    /\ main.pc = "in_runner"
    /\ \E k \in Keys : RunCollect(k)
    /\ UNCHANGED <<crawlVars, dbVars, outsideCrawl>>
PoolReturn ==
    /\ main.pc = "in_runner"
    /\ RunReturn
    /\ UNCHANGED <<crawlVars, dbVars, outsideCrawl>>

(* A pool thread starts process_subchapter for the oldest queued entry *)
TaskStart ==
    \E w \in DOMAIN workers :
        /\ main.pc = "in_runner"
        /\ RunWorkerStart(w)
        /\ task' = [task EXCEPT ![Head(workQueue)].pc = "fetch"]
        /\ UNCHANGED <<main, courseList, content, subList, fetchLog,
                       failedUpserts, faults, dbVars, outsideCrawl>>

AfterDetailFetchRetrying(d) ==
    IF d = Absent THEN "fetch"
    ELSE IF The(d).video # Absent THEN "insert_video"
    ELSE "return"

AfterDetailFetchAssumingVideo(d) ==
    IF d = Absent THEN "return" ELSE "insert_video"

(* The task of pool thread w after the request of get_subchapter_detail:
   "if not detail: return None", then "if video := detail_dict.get('video')" *)
AfterDetailFetch(d) ==
    IF d = Absent THEN "return"
    ELSE IF The(d).video # Absent THEN "insert_video"
    ELSE "return"

(* scrape_subchapter_detail, lines 45-50, with get_subchapter_detail, which
   turns a failed request or validation into None *)
TaskFetchDetail ==
    \E w \in DOMAIN workers :
        /\ workers[w] # Idle
        /\ task[workers[w]].pc = "fetch"
        /\ LET k == workers[w]
               slug == items_dict[k].subchapter_slug
           IN \E o \in Outcomes :
                /\ Fetch("detail", <<Course.slug, slug>>, PoolThread(w), o)
                /\ LET d == IF o = "ok"
                              THEN Present(ApiDetail(Course.slug, slug))
                              ELSE Absent
                   IN task' = [task EXCEPT ![k].detail = d,
                                          ![k].pc = AfterDetailFetch(d)]
        /\ UNCHANGED <<main, courseList, content, subList, runVars, outsideCrawl>>

(* scrape_subchapter_detail, lines 55-59: insert_video, then the test for
   lecturers *)
TaskInsertVideo ==
    \E w \in DOMAIN workers :
        /\ workers[w] # Idle
        /\ task[workers[w]].pc = "insert_video"
        /\ LET k == workers[w]
               d == The(task[k].detail)
               v == The(d.video)
           IN /\ InsertStep("videos", VideoRow(v, d.id))
              /\ task' = IF v.lecturers # <<>>
                           THEN [task EXCEPT ![k].pc = "insert_lecturer",
                                              ![k].li = 1]
                           ELSE [task EXCEPT ![k].pc = "return"]
        /\ UNCHANGED <<main, courseList, content, subList, runVars, outsideCrawl>>

AfterInsertLecturerCut(failed) == IF failed THEN "return" ELSE "insert_link"

(* Where scrape_subchapter_detail goes after insert_lecturer: the method
   has caught its sqlite3.Error and returned False, and line 61 does not
   look at the return value *)
AfterInsertLecturer(failed) == "insert_link"

(* scrape_subchapter_detail, line 61: insert_lecturer *)
TaskInsertLecturer ==
    \E w \in DOMAIN workers :
        /\ workers[w] # Idle
        /\ task[workers[w]].pc = "insert_lecturer"
        /\ LET k == workers[w]
               v == The(The(task[k].detail).video)
           IN /\ InsertStep("lecturers", LecturerRow(v.lecturers[task[k].li]))
              /\ task' = [task EXCEPT
                             ![k].pc = AfterInsertLecturer(lastOp'.error)]
        /\ UNCHANGED <<main, courseList, content, subList, runVars, outsideCrawl>>

(* scrape_subchapter_detail, line 62: insert_video_lecturer, and the next
   turn of the loop over lecturers *)
TaskInsertLink ==
    \E w \in DOMAIN workers :
        /\ workers[w] # Idle
        /\ task[workers[w]].pc = "insert_link"
        /\ LET k == workers[w]
               v == The(The(task[k].detail).video)
               l == v.lecturers[task[k].li]
           IN /\ InsertStep("video_lecturers", VideoLecturerRow(v.id, l.id))
              /\ task' = IF task[k].li < Len(v.lecturers)
                           THEN [task EXCEPT ![k].pc = "insert_lecturer",
                                              ![k].li = @ + 1]
                           ELSE [task EXCEPT ![k].pc = "return"]
        /\ UNCHANGED <<main, courseList, content, subList, runVars, outsideCrawl>>

ProcessSubchapterRaising(k) ==
    IF task[k].detail = Absent
      THEN <<"exception", k>>
      ELSE <<"result", items_dict[k].subchapter_slug, task[k].detail>>

(* process_subchapter, lines 83-85: the pair (slug, detail) it returns, with
   detail None when scrape_subchapter_detail got or kept nothing *)
process_subchapter(k) ==
    <<"result", items_dict[k].subchapter_slug, task[k].detail>>

(* process_subchapter returns (slug, detail); the future is finished *)
TaskReturn ==
    \E w \in DOMAIN workers :
        /\ workers[w] # Idle
        /\ task[workers[w]].pc = "return"
        /\ LET k == workers[w]
           IN /\ RunWorkerFinish(w, process_subchapter(k))
              /\ task' = [task EXCEPT ![k].pc = "done"]
        /\ UNCHANGED <<main, courseList, content, subList, fetchLog,
                       failedUpserts, faults, dbVars, outsideCrawl>>

(* scrape_chapter_subchapters_with_details, lines 97-102, and the next turn
   of the loops of scrape_all *)
NextChapter ==
    /\ main.pc = "in_runner"
    /\ runPc = "returned"
    /\ runPc' = "idle"
    /\ main' = AfterChapter(main.ci, main.chi, content.chapters)
    /\ UNCHANGED <<items_dict, max_workers, show_progress, behaviour, futures,
                   futOutcome, workQueue, workers, yielded, results, progress,
                   invoked>>
    /\ UNCHANGED <<courseList, content, subList, task, fetchLog,
                   failedUpserts, faults, dbVars, outsideCrawl>>

(* scrape_all, lines 35 and 53-54: the with block exits and the completion
   time is printed *)
Complete ==
    /\ main.pc = "close"
    /\ main' = [main EXCEPT !.pc = "done"]
    /\ UNCHANGED <<courseList, content, subList, task, fetchLog,
                   failedUpserts, faults, dbVars, runVars, outsideCrawl>>

CrawlNext ==
    \/ ScrapeCourses
    \/ InsertCourses
    \/ ScrapeCourseContent
    \/ InsertChapters
    \/ InsertBooks
    \/ ScrapeSubchapters
    \/ InsertSubchapters
    \/ CallRunner
    \/ PoolEnter
    \/ PoolSubmit
    \/ TaskStart
    \/ TaskFetchDetail
    \/ TaskInsertVideo
    \/ TaskInsertLecturer
    \/ TaskInsertLink
    \/ TaskReturn
    \/ PoolCollect
    \/ PoolReturn
    \/ NextChapter
    \/ Complete

(* The crawl starts with no call of the runner in progress; MAX_WORKERS comes
   from the environment. *)
RunnerOfCrawl ==
    /\ items_dict = <<>>
    /\ max_workers \in {1, MaxWorkerBound}
    /\ show_progress = FALSE
    /\ behaviour = <<>>
    /\ runPc = "idle"
    /\ futures = <<>>
    /\ futOutcome = <<>>
    /\ workQueue = <<>>
    /\ workers = <<>>
    /\ yielded = {}
    /\ results = <<>>
    /\ progress = 0
    /\ invoked = <<>>

(* scrape_all run again, as a new process on the database file the earlier
   execution left *)
MaxExecutions == 2      \* executions of scrape_all on one database file

(* The API answers every request with a valid payload and sqlite accepts
   every upsert: no failure can be injected. *)
FailureFreeInit ==
    /\ main = [pc |-> "start", ci |-> 0, chi |-> 0, ii |-> 0]
    /\ courseList = <<>>
    /\ content = NoContent
    /\ subList = <<>>
    /\ task = <<>>
    /\ fetchLog = {}
    /\ failedUpserts = {}
    /\ faults = MaxFaults

(* The process of the completed execution has ended and scrape_all starts
   in a new one: DB_PATH still holds the tables, everything else is new. *)
Rerun ==
    /\ main.pc = "done"
    /\ execution < MaxExecutions
    /\ execution' = execution + 1
    /\ afterFirst' = IF execution = 1 THEN tables ELSE afterFirst
    /\ main' = [pc |-> "start", ci |-> 0, chi |-> 0, ii |-> 0]
    /\ courseList' = <<>>
    /\ content' = NoContent
    /\ subList' = <<>>
    /\ task' = <<>>
    /\ fetchLog' = {}
    /\ failedUpserts' = {}
    /\ items_dict' = <<>>
    /\ show_progress' = FALSE
    /\ runPc' = "idle"
    /\ futures' = <<>>
    /\ futOutcome' = <<>>
    /\ workQueue' = <<>>
    /\ workers' = <<>>
    /\ yielded' = {}
    /\ results' = <<>>
    /\ progress' = 0
    /\ invoked' = <<>>
    /\ UNCHANGED <<max_workers, behaviour, faults, dbVars, rlVars, connVars,
                   cliVars, dlVars>>

RerunNext ==
    \/ CrawlNext
    \/ Rerun

----------------------------------------------------------------------------
(* DatabaseManager.get_connection: the connection kept in threading.local *)

NumPoolThreads == 2     \* worker threads beside the constructing thread
MaxConnections == 4     \* sqlite3.connect calls in one run of the model

ConstructingThread == 0
DbThreads == 0..NumPoolThreads

(* self._local has no attribute conn in the namespace of a thread that never
   assigned it *)
Unset == <<"unset">>

(* The n-th connection made by sqlite3.connect, which thread t called *)
Connection(n, t) == <<"conn", n, t>>
IsConnection(c) == c[1] = "conn"
OpenedBy(c) == c[3]

SlotShared(t) == ConstructingThread

(* threading.local keeps one namespace per thread: the slot thread t reads
   and writes through self._local *)
Slot(t) == t

(* After __init__: _local.conn = None was assigned in the constructing thread
   only, and setup_database has opened and used that thread's connection. *)
ConnInit ==
    /\ local = [t \in DbThreads |->
                  IF t = ConstructingThread
                    THEN Connection(1, ConstructingThread) ELSE Unset]
    /\ connPc = [t \in DbThreads |-> "idle"]
    /\ held = [t \in DbThreads |-> None]
    /\ opened = {Connection(1, ConstructingThread)}
    /\ closed = {}
    /\ usedBy = {<<ConstructingThread, Connection(1, ConstructingThread)>>}

(* No DatabaseManager call in progress: the state the other specifications
   keep *)
ConnIdle == ConnInit

(* A thread enters an operation that starts with self.get_connection() *)
BeginOperation(t) ==
    /\ connPc[t] = "idle"
    /\ connPc' = [connPc EXCEPT ![t] = "test"]
    /\ UNCHANGED <<local, held, opened, closed, usedBy, otherThanConn>>

(* line 122: if not hasattr(self._local, 'conn') or self._local.conn is None *)
GetConnectionTest(t) ==
    /\ connPc[t] = "test"
    /\ connPc' = [connPc EXCEPT ![t] =
                     IF local[Slot(t)] = Unset \/ local[Slot(t)] = None
                       THEN "connect" ELSE "return"]
    /\ UNCHANGED <<local, held, opened, closed, usedBy, otherThanConn>>

(* lines 123-124: self._local.conn = sqlite3.connect(self.db_path) *)
GetConnectionOpen(t) ==
    /\ connPc[t] = "connect"
    /\ Cardinality(opened) < MaxConnections
    /\ LET c == Connection(Cardinality(opened) + 1, t)
       IN /\ local' = [local EXCEPT ![Slot(t)] = c]
          /\ opened' = opened \cup {c}
    /\ connPc' = [connPc EXCEPT ![t] = "return"]
    /\ UNCHANGED <<held, closed, usedBy, otherThanConn>>

(* line 125: return self._local.conn *)
GetConnectionReturn(t) ==
    /\ connPc[t] = "return"
    /\ held' = [held EXCEPT ![t] = local[Slot(t)]]
    /\ connPc' = [connPc EXCEPT ![t] = "use"]
    /\ UNCHANGED <<local, opened, closed, usedBy, otherThanConn>>

(* the caller's "with self.get_connection() as conn": cursor, execute,
   commit on the returned connection; then the operation returns *)
UseConnection(t) ==
    /\ connPc[t] = "use"
    /\ usedBy' = usedBy \cup {<<t, held[t]>>}
    /\ held' = [held EXCEPT ![t] = None]
    /\ connPc' = [connPc EXCEPT ![t] = "idle"]
    /\ UNCHANGED <<local, opened, closed, otherThanConn>>

(* close, lines 127-131: closes the calling thread's connection, if any *)
close(t) ==
    /\ connPc[t] = "idle"
    /\ IF local[Slot(t)] # Unset /\ local[Slot(t)] # None
         THEN /\ closed' = closed \cup {local[Slot(t)]}
              /\ local' = [local EXCEPT ![Slot(t)] = None]
         ELSE UNCHANGED <<local, closed>>
    /\ UNCHANGED <<connPc, held, opened, usedBy, otherThanConn>>

ConnNext ==
    \/ \E t \in DbThreads : BeginOperation(t)
    \/ \E t \in DbThreads : GetConnectionTest(t)
    \/ \E t \in DbThreads : GetConnectionOpen(t)
    \/ \E t \in DbThreads : GetConnectionReturn(t)
    \/ \E t \in DbThreads : UseConnection(t)
    \/ \E t \in DbThreads : close(t)

----------------------------------------------------------------------------
(* main (src/src/main.py): one process per command line *)

(* A process at the start of main(): the three store_true flags of argparse,
   whether API_TOKEN is set, and nothing done yet. managers counts the
   DatabaseManager objects constructed, setups the runs of setup_database. *)
Process(stats, scrape, download, token) ==
    [pc |-> "main", stats |-> stats, scrape |-> scrape,
     download |-> download, token |-> token, db_exists |-> FALSE,
     managers |-> 0, setups |-> 0, queried |-> FALSE, downloads |-> FALSE,
     status |-> "running"]

(* The first process starts with no database file *)
CliInit ==
    /\ cli \in {Process(st, sc, dw, tk) : st, sc, dw, tk \in BOOLEAN}
    /\ dbFile = FALSE
    /\ upstream = 1

(* No process of main(): the state the other specifications keep *)
CliIdle ==
    /\ cli = [Process(FALSE, FALSE, FALSE, FALSE) EXCEPT !.pc = "idle"]
    /\ dbFile = FALSE
    /\ upstream = 1

(* lines 149-165: db_exists = Path(DB_PATH).exists(), then the if / elif
   chain over args.stats, args.scrape, args.download *)
MainDispatch ==
    /\ cli.pc = "main"
    /\ cli' = [cli EXCEPT
                 !.db_exists = dbFile,
                 !.pc = IF cli.stats
                          THEN (IF dbFile THEN "show_stats" ELSE "ended")
                        ELSE IF cli.scrape THEN "check_token"
                        ELSE IF cli.download
                          THEN (IF dbFile THEN "download_videos" ELSE "ended")
                        ELSE "ended"]
    /\ UNCHANGED <<dbFile, upstream, rlVars, runVars, dbVars, crawlVars,
                   rerunVars, connVars, dlVars>>

TokenIgnored(token) == "scrape_all"

(* check_token, lines 15-20: sys.exit(1) when API_TOKEN is empty *)
AfterCheckToken(token) == IF token THEN "scrape_all" ELSE "exited"

(* line 157: check_token() *)
check_token ==
    /\ cli.pc = "check_token"
    /\ cli' = [cli EXCEPT
                 !.pc = AfterCheckToken(cli.token),
                 !.status = IF AfterCheckToken(cli.token) = "exited"
                              THEN "exit 1" ELSE cli.status]
    /\ UNCHANGED <<dbFile, upstream, rlVars, runVars, dbVars, crawlVars,
                   rerunVars, connVars, dlVars>>

SetupDroppingRows(table) == {}

(* setup_database, manager.py lines 20-118: CREATE TABLE IF NOT EXISTS
   leaves a table that exists as it is; on a new file the table is created
   empty, which is what the table is without a file *)
setup_database(table) == table

(* "with DatabaseManager() as db" of scrape_all (line 35), show_stats
   (line 59) and download_videos (line 114): __init__ calls setup_database,
   whose sqlite3.connect creates the file. scrape_all goes on to
   scrape_courses. *)
NewDatabaseManager ==
    /\ cli.pc \in {"scrape_all", "show_stats", "download_videos"}
    /\ courses' = setup_database(courses)
    /\ chapters' = setup_database(chapters)
    /\ subchapters' = setup_database(subchapters)
    /\ videos' = setup_database(videos)
    /\ lecturers' = setup_database(lecturers)
    /\ video_lecturers' = setup_database(video_lecturers)
    /\ books' = setup_database(books)
    /\ dbFile' = TRUE
    /\ cli' = [cli EXCEPT
                 !.managers = cli.managers + 1,
                 !.setups = cli.setups + 1,
                 !.pc = CASE cli.pc = "scrape_all" -> "scraping"
                          [] cli.pc = "show_stats" -> "stats"
                          [] cli.pc = "download_videos" -> "downloading"]
    /\ main' = IF cli.pc = "scrape_all"
                 THEN [main EXCEPT !.pc = "start"] ELSE main
    /\ UNCHANGED <<lastOp, opCount, courseList, content, subList, task,
                   fetchLog, failedUpserts, faults, upstream, rlVars,
                   runVars, rerunVars, connVars, dlVars>>

(* scrape_all, lines 35-54: the with block is left, normally or by the
   exception that escaped the scrapers *)
ScrapeAllEnds ==
    /\ cli.pc = "scraping"
    /\ main.pc \in {"done", "aborted"}
    /\ cli' = [cli EXCEPT
                 !.pc = IF main.pc = "done" THEN "ended" ELSE "exited",
                 !.status = IF main.pc = "done" THEN cli.status
                                                ELSE "exit 1"]
    /\ UNCHANGED <<dbFile, upstream, rlVars, runVars, dbVars, crawlVars,
                   rerunVars, connVars, dlVars>>

(* show_stats, lines 60-107: the COUNT queries and the listings *)
show_stats ==
    /\ cli.pc = "stats"
    /\ cli' = [cli EXCEPT !.queried = TRUE, !.pc = "ended"]
    /\ UNCHANGED <<dbFile, upstream, rlVars, runVars, dbVars, crawlVars,
                   rerunVars, connVars, dlVars>>

(* download_videos, lines 115-133: list_available_courses when no --course
   was given, and download_course_videos unless no course was found or
   chosen *)
download_videos ==
    /\ cli.pc = "downloading"
    /\ \E chosen \in BOOLEAN :
          cli' = [cli EXCEPT !.queried = TRUE, !.downloads = chosen,
                             !.pc = "ended"]
    /\ UNCHANGED <<dbFile, upstream, rlVars, runVars, dbVars, crawlVars,
                   rerunVars, connVars, dlVars>>

(* The process has ended and main() is started again, with any flags and
   environment, on what DB_PATH holds by now; the platform may have replaced
   its videos in between, which gives them new ids *)
NextProcess ==
    /\ cli.pc \in {"ended", "exited"}
    /\ execution < MaxExecutions
    /\ execution' = execution + 1
    /\ cli' \in {Process(st, sc, dw, tk) : st, sc, dw, tk \in BOOLEAN}
    /\ upstream' \in {upstream, upstream + 1}
    /\ main' = [pc |-> "idle", ci |-> 0, chi |-> 0, ii |-> 0]
    /\ courseList' = <<>>
    /\ content' = NoContent
    /\ subList' = <<>>
    /\ task' = <<>>
    /\ fetchLog' = {}
    /\ failedUpserts' = {}
    /\ items_dict' = <<>>
    /\ show_progress' = FALSE
    /\ runPc' = "idle"
    /\ futures' = <<>>
    /\ futOutcome' = <<>>
    /\ workQueue' = <<>>
    /\ workers' = <<>>
    /\ yielded' = {}
    /\ results' = <<>>
    /\ progress' = 0
    /\ invoked' = <<>>
    /\ UNCHANGED <<afterFirst, dbFile, max_workers, behaviour, faults, dbVars,
                   rlVars, connVars, dlVars>>

CliNext ==
    \/ MainDispatch
    \/ check_token
    \/ NewDatabaseManager
    \/ CrawlNext
    \/ ScrapeAllEnds
    \/ show_stats
    \/ download_videos
    \/ NextProcess

----------------------------------------------------------------------------
(* VideoDownloader.download_course_videos (src/src/downloader/video.py) *)

MaxVideos == 2          \* videos of the course being downloaded

(* A row of get_course_videos as download_course_videos uses it: the three
   columns _download_video tests, each NULL or set. The output path is made
   of the orders and names of the row; row n of the listing has path n. *)
VideoEntries ==
    [video_url : {None, <<"url">>},
     drm_video_url : {None, <<"drm_url">>},
     drm_token : {None, <<"drm_token">>}]

(* returncode of the subprocess, or subprocess.run raised *)
ExitCodes == {"zero", "nonzero", "raised"}

(* videos = self.get_course_videos(course_slug) has returned; RCLONE_ENABLED
   and DELETE_AFTER_UPLOAD come from the environment; any of the output files
   may be there from an earlier run *)
DlInit ==
    /\ \E n \in 0..MaxVideos :
         /\ listing \in [1..n -> VideoEntries]
         /\ files \in SUBSET (1..n)
    /\ \E rclone, delete \in BOOLEAN :
         dl = [pc |-> "start", i |-> 0, RCLONE_ENABLED |-> rclone,
               DELETE_AFTER_UPLOAD |-> delete, success |-> FALSE,
               upload_success |-> FALSE, advanced |-> 0]
    /\ dlLog = <<>>

(* No download in progress: the state the other specifications keep *)
DlIdle ==
    /\ listing = <<>>
    /\ files = {}
    /\ dl = [pc |-> "idle", i |-> 0, RCLONE_ENABLED |-> FALSE,
             DELETE_AFTER_UPLOAD |-> FALSE, success |-> FALSE,
             upload_success |-> FALSE, advanced |-> 0]
    /\ dlLog = <<>>

(* One subprocess.run or unlink of iteration dl.i *)
Logged(op, rc) == Append(dlLog, [op |-> op, i |-> dl.i, rc |-> rc])

(* The next turn of "for video in videos", or the end of the loop *)
NextVideo ==
    IF dl.i < Len(listing)
      THEN [dl EXCEPT !.pc = "exists", !.i = dl.i + 1, !.success = FALSE,
                      !.upload_success = FALSE]
      ELSE [dl EXCEPT !.pc = "returned"]

StopsAfterFailure ==
    IF dl.pc = "downloaded" /\ ~dl.success
      THEN [dl EXCEPT !.pc = "returned"]
      ELSE [NextVideo EXCEPT !.advanced = dl.advanced + 1]

(* lines 206-207 and 227: progress.update(task, advance=1), which ends the
   iteration on each of its paths *)
Continue == [NextVideo EXCEPT !.advanced = dl.advanced + 1]

(* lines 151-171: if not videos: return; otherwise the loop starts *)
DownloadStart ==
    /\ dl.pc = "start"
    /\ dl' = NextVideo
    /\ UNCHANGED <<listing, files, dlLog, otherThanDl>>

(* lines 193-197 and 206-210: if output_path.exists(), upload when
   RCLONE_ENABLED and continue; otherwise _download_video is called *)
TestExists ==
    /\ dl.pc = "exists"
    /\ dl' = IF dl.i \in files
               THEN (IF dl.RCLONE_ENABLED THEN [dl EXCEPT !.pc = "upload"]
                                          ELSE Continue)
               ELSE [dl EXCEPT !.pc = "direct"]
    /\ UNCHANGED <<listing, files, dlLog, otherThanDl>>

AfterDirectTryingOn(rc) == "drm"

(* lines 263-268: return True on returncode 0, otherwise fall through to the
   DRM variant *)
AfterDirect(rc) == IF rc = "zero" THEN "downloaded" ELSE "drm"

(* _download_video, lines 236-266: ffmpeg on video_url when it is set *)
TryDirect ==
    /\ dl.pc = "direct"
    /\ IF listing[dl.i].video_url # None
         THEN \E rc \in ExitCodes :
                /\ dlLog' = Logged("ffmpeg_direct", rc)
                /\ files' = IF rc = "zero" THEN files \cup {dl.i} ELSE files
                /\ dl' = [dl EXCEPT !.pc = AfterDirect(rc),
                                    !.success = (rc = "zero")]
         ELSE /\ dl' = [dl EXCEPT !.pc = "drm"]
              /\ UNCHANGED <<files, dlLog>>
    /\ UNCHANGED <<listing, otherThanDl>>

(* _download_video, lines 269-293: ffmpeg on drm_video_url?token=drm_token
   when both are set; return True on returncode 0, else return False *)
TryDrm ==
    /\ dl.pc = "drm"
    /\ IF listing[dl.i].drm_video_url # None /\ listing[dl.i].drm_token # None
         THEN \E rc \in ExitCodes :
                /\ dlLog' = Logged("ffmpeg_drm", rc)
                /\ files' = IF rc = "zero" THEN files \cup {dl.i} ELSE files
                /\ dl' = [dl EXCEPT !.pc = "downloaded",
                                    !.success = (rc = "zero")]
         ELSE /\ dl' = [dl EXCEPT !.pc = "downloaded", !.success = FALSE]
              /\ UNCHANGED <<files, dlLog>>
    /\ UNCHANGED <<listing, otherThanDl>>

(* lines 210-227: success = self._download_video(...); upload when it
   succeeded and RCLONE_ENABLED *)
AfterDownload ==
    /\ dl.pc = "downloaded"
    /\ dl' = IF dl.success /\ dl.RCLONE_ENABLED
               THEN [dl EXCEPT !.pc = "upload"] ELSE Continue
    /\ UNCHANGED <<listing, files, dlLog, otherThanDl>>

DeletesWhenEnabled(upload_success) == dl.DELETE_AFTER_UPLOAD

(* lines 199 and 218: if upload_success and DELETE_AFTER_UPLOAD *)
Deletes(upload_success) == upload_success /\ dl.DELETE_AFTER_UPLOAD

(* lines 198-199 and 217-218 with _upload_to_gdrive, lines 115-147: rclone
   copy of output_path; True only when rclone returned 0 *)
Upload ==
    /\ dl.pc = "upload"
    /\ \E rc \in ExitCodes :
         LET uploaded == dl.RCLONE_ENABLED /\ rc = "zero"
         IN /\ dlLog' = Logged("rclone", rc)
            /\ dl' = IF Deletes(uploaded)
                       THEN [dl EXCEPT !.pc = "unlink",
                                       !.upload_success = uploaded]
                       ELSE Continue
    /\ UNCHANGED <<listing, files, otherThanDl>>

(* lines 200-204 and 219-223: output_path.unlink(), an exception of which is
   printed and swallowed *)
Unlink ==
    /\ dl.pc = "unlink"
    /\ \E rc \in {"zero", "raised"} :
         /\ dlLog' = Logged("unlink", rc)
         /\ files' = IF rc = "zero" THEN files \ {dl.i} ELSE files
    /\ dl' = Continue
    /\ UNCHANGED <<listing, otherThanDl>>

DlNext ==
    \/ DownloadStart
    \/ TestExists
    \/ TryDirect
    \/ TryDrm
    \/ AfterDownload
    \/ Upload
    \/ Unlink

----------------------------------------------------------------------------
(* VideoDownloader.get_course_videos (src/src/downloader/video.py) *)

MaxListed == 3          \* subchapters of the database that is listed

SubchapterOrders == 0..2

(* A database as crawls may have left it: two courses, two chapters with any
   orders, the second one in either course, subchapters 1..MaxListed with any
   orders in either chapter, and a video for any of them *)
ListingInit ==
    /\ courses = {CourseRow([id |-> c, course_name |-> "t1", slug |-> c,
                             cover |-> "t1"]) : c \in Slugs}
    /\ \E o \in [Ids -> Orders], y \in Slugs :
         chapters = {ChapterRow([chapter_id |-> h, chapter_name |-> "t1",
                                 order |-> o[h]],
                                IF h = "a" THEN "x" ELSE y) : h \in Ids}
    /\ \E o \in [1..MaxListed -> SubchapterOrders],
          h \in [1..MaxListed -> Ids] :
         subchapters = {SubchapterRow([id |-> u, subchapter_slug |-> u,
                                       order |-> o[u]], h[u]) :
                          u \in 1..MaxListed}
    /\ \E withVideo \in SUBSET (1..MaxListed) :
         videos = {VideoRow([id |-> u, video_url |-> "t1"], u) :
                     u \in withVideo}
    /\ lecturers = {}
    /\ video_lecturers = {}
    /\ books = {}
    /\ lastOp = [table |-> "none", row |-> <<>>, error |-> FALSE,
                 result |-> "none", deleted |-> {}]
    /\ opCount = 0
    /\ listing = <<>>
    /\ files = {}
    /\ dl = [pc |-> "query", course_slug |-> None]
    /\ dlLog = <<>>

(* lines 74-90: the rows of courses JOIN chapters ON c.slug = ch.course_id
   JOIN subchapters ON ch.id = s.chapter_id JOIN videos ON s.id =
   v.subchapter_id WHERE c.slug = ?, with the selected columns *)
Joined(course_slug) ==
    {[video_id |-> q[4].id, subchapter_id |-> q[3].id,
      chapter_order |-> q[2].order_index,
      subchapter_order |-> q[3].order_index] :
       q \in {p \in courses \X chapters \X subchapters \X videos :
                /\ p[1].slug = p[2].course_id
                /\ p[2].id = p[3].chapter_id
                /\ p[3].id = p[4].subchapter_id
                /\ p[1].slug = course_slug}}

InAnyOrder(a, b) == TRUE

(* line 91, ORDER BY ch.order_index, s.order_index: row a may be returned
   before row b; rows with equal keys come in either order *)
OrderedBy(a, b) ==
    \/ a.chapter_order < b.chapter_order
    \/ a.chapter_order = b.chapter_order
         /\ a.subchapter_order <= b.subchapter_order

(* cursor.fetchall(): every row once, in an order the ORDER BY allows *)
FetchAll(rows) ==
    {seq \in [1..Cardinality(rows) -> rows] :
        /\ \A i, j \in DOMAIN seq : i # j => seq[i] # seq[j]
        /\ \A i, j \in DOMAIN seq : i < j => OrderedBy(seq[i], seq[j])}

(* get_course_videos, lines 69-94 *)
get_course_videos ==
    /\ dl.pc = "query"
    /\ \E course_slug \in Slugs :
         /\ listing' \in FetchAll(Joined(course_slug))
         /\ dl' = [pc |-> "listed", course_slug |-> course_slug]
    /\ UNCHANGED <<files, dlLog, otherThanDl>>

ListingNext == get_course_videos

----------------------------------------------------------------------------
(* Specifications *)

(* the first execution has not ended *)
RerunIdle ==
    /\ execution = 1
    /\ afterFirst = <<>>

InitRL == RLInit /\ RunIdle /\ DbInit /\ CrawlIdle /\ RerunIdle /\ ConnIdle
            /\ CliIdle /\ DlIdle
SpecRL == InitRL /\ [][RLNext]_vars

InitRun == RunInit /\ RLInit /\ DbInit /\ CrawlIdle /\ RerunIdle /\ ConnIdle
            /\ CliIdle /\ DlIdle
SpecRun == InitRun /\ [][RunNext]_vars

InitCrawl ==
    CrawlInit /\ RunnerOfCrawl /\ DbInit /\ RLInit /\ RerunIdle /\ ConnIdle
              /\ CliIdle /\ DlIdle
SpecCrawl == InitCrawl /\ [][CrawlNext]_vars

InitDb == DbInit /\ RLInit /\ RunIdle /\ CrawlIdle /\ RerunIdle /\ ConnIdle
            /\ CliIdle /\ DlIdle
SpecDb == InitDb /\ [][DbNext]_vars

(* The orchestrator thread and the pool threads keep being scheduled, and
   every request returns or raises (the timeout of httpx.Client): a step of
   the crawl that can be taken is eventually taken. *)
LiveCrawl == InitCrawl /\ [][CrawlNext]_vars /\ WF_vars(CrawlNext)

InitRerun ==
    FailureFreeInit /\ RunnerOfCrawl /\ DbInit /\ RLInit /\ RerunIdle /\ ConnIdle
                    /\ CliIdle /\ DlIdle
SpecRerun == InitRerun /\ [][RerunNext]_vars

InitConn == ConnInit /\ DbInit /\ RLInit /\ RunIdle /\ CrawlIdle /\ RerunIdle
            /\ CliIdle /\ DlIdle
SpecConn == InitConn /\ [][ConnNext]_vars

(* main() run by MaxExecutions processes in a row; the API and sqlite do not
   fail *)
InitCli ==
    /\ CliInit
    /\ main = [pc |-> "idle", ci |-> 0, chi |-> 0, ii |-> 0]
    /\ courseList = <<>>
    /\ content = NoContent
    /\ subList = <<>>
    /\ task = <<>>
    /\ fetchLog = {}
    /\ failedUpserts = {}
    /\ faults = MaxFaults
    /\ RunnerOfCrawl /\ DbInit /\ RLInit /\ RerunIdle /\ ConnIdle /\ DlIdle
SpecCli == InitCli /\ [][CliNext]_vars

InitDownload ==
    DlInit /\ DbInit /\ RLInit /\ RunIdle /\ CrawlIdle /\ RerunIdle /\ ConnIdle
           /\ CliIdle
SpecDownload == InitDownload /\ [][DlNext]_vars

InitListing ==
    ListingInit /\ RLInit /\ RunIdle /\ CrawlIdle /\ RerunIdle /\ ConnIdle
                /\ CliIdle
SpecListing == InitListing /\ [][ListingNext]_vars

----------------------------------------------------------------------------
(* C1: any two granted acquisitions of one shared limiter are at least the
   minimum interval apart, so K acquisitions take at least (K-1) intervals. *)
C1_Serialized ==
    \A i, j \in 1..Len(grants) :
        i < j => grants[j] - grants[i] >= (j - i) * MinInterval

(* C2: every input key, also one whose processing function raised, is in the
   returned mapping (with the result or with a failure marker). *)
C2_KeysPreserved ==
    runPc = "returned" => DOMAIN results = Keys

Running == {k \in Keys : futures[k] = "running"}

(* C3: the invocations of the processing function that have started and not
   finished never outnumber the worker bound. *)
C3_BoundedParallelism ==
    Cardinality(Running) <= max_workers

(* more entries than workers, every worker busy and entries still queued *)
C3_Witness ==
    /\ Cardinality(Keys) > max_workers
    /\ max_workers > 1
    /\ Cardinality(Running) = max_workers
    /\ workQueue # <<>>

Raisers == {k \in Keys : behaviour[k] = "raise"}

(* C4: when the function raises for exactly one key, the call returns
   normally, every other key maps to the function's result for its own value
   and the failing key is absent, in every completion order. *)
C4_FailureIsolation ==
    Cardinality(Raisers) = 1 =>
        /\ runPc # "raised"
        /\ runPc = "returned" =>
             \A k \in Keys :
                IF k \in Raisers
                  THEN k \notin DOMAIN results
                  ELSE /\ k \in DOMAIN results
                       /\ results[k] = IF behaviour[k] = "none"
                                         THEN None
                                         ELSE Func(ItemValue(k))

(* the call returned although the first of its entries raised; the other
   entries are all in the mapping *)
C4_Witness ==
    /\ runPc = "returned"
    /\ Cardinality(Keys) = MaxItems
    /\ Raisers = {1}
    /\ DOMAIN results = Keys \ {1}

(* C5: with a function that never raises, the function is invoked exactly
   once per entry and the returned mapping has exactly the input keys, for
   every worker bound. *)
C5_FanOutComplete ==
    /\ \A k \in Keys : invoked[k] <= 1
    /\ (Raisers = {} /\ runPc = "returned") =>
          /\ DOMAIN results = Keys
          /\ \A k \in Keys : invoked[k] = 1

(* a call over several entries, some returning None, returned with fewer
   workers than entries *)
C5_Witness ==
    /\ runPc = "returned"
    /\ Raisers = {}
    /\ Cardinality(Keys) > max_workers
    /\ \E k \in Keys : behaviour[k] = "none"
    /\ DOMAIN results = Keys

Inserted == lastOp.table \in TableNames /\ lastOp.result = "True"

SameKey(t, r) == {x \in TableOf(t) : PrimaryKey(t, x) = PrimaryKey(t, r)}

(* C6: after an upsert of any entity kind the table holds exactly one row
   with that primary key, and it is the row just written, whether the key was
   new, stored with the same fields or stored with other fields. *)
C6_UpsertIdempotent ==
    Inserted => SameKey(lastOp.table, lastOp.row) = {lastOp.row}

(* an upsert replaced a row that had the same key and other fields *)
C6_Witness ==
    /\ Inserted
    /\ lastOp.table = "subchapters"
    /\ \E old \in lastOp.deleted :
          /\ PrimaryKey(lastOp.table, old) = PrimaryKey(lastOp.table, lastOp.row)
          /\ old.order_index # lastOp.row.order_index
          /\ old.chapter_id = lastOp.row.chapter_id
    /\ SameKey(lastOp.table, lastOp.row) = {lastOp.row}

(* C7: an upsert removes no row stored under another primary key, also when
   the new record carries a slug the existing row already holds. *)
C7_NoDeletion ==
    Inserted =>
        \A old \in lastOp.deleted :
            PrimaryKey(lastOp.table, old) = PrimaryKey(lastOp.table, lastOp.row)

(* C8: an insert_* call that meets a storage error returns False, raises
   nothing and leaves every table as it was. *)
C8_FailureLeavesState ==
    [][(opCount' # opCount /\ lastOp'.error) =>
          /\ lastOp'.result = "False"
          /\ UNCHANGED tables]_vars

(* a failed insert_video on a key that is stored with another url: the
   stored row is still there *)
C8_Witness ==
    /\ lastOp.table = "videos"
    /\ lastOp.error
    /\ lastOp.result = "False"
    /\ \E old \in videos :
          /\ old.id = lastOp.row.id
          /\ old.video_url # lastOp.row.video_url

(* Requests of the crawl, by outcome *)
FetchedOk(kind, key) ==
    \E e \in fetchLog : e.kind = kind /\ e.key = key /\ e.outcome = "ok"
FetchRaised(kind, key) ==
    \E e \in fetchLog : e.kind = kind /\ e.key = key /\ e.outcome = "raise"
FetchFailed(kind, key) ==
    \E e \in fetchLog : e.kind = kind /\ e.key = key /\ e.outcome # "ok"

Range(f) == {f[x] : x \in DOMAIN f}

(* The rows the API's data for one subchapter, chapter or course amount to *)
VideosOfSub(course_slug, sub) ==
    LET d == ApiDetail(course_slug, sub.subchapter_slug)
    IN IF d.video = Absent THEN {} ELSE {VideoRow(The(d.video), d.id)}
LecturersOfSub(course_slug, sub) ==
    LET d == ApiDetail(course_slug, sub.subchapter_slug)
    IN IF d.video = Absent THEN {}
       ELSE {LecturerRow(l) : l \in Range(The(d.video).lecturers)}
LinksOfSub(course_slug, sub) ==
    LET d == ApiDetail(course_slug, sub.subchapter_slug)
    IN IF d.video = Absent THEN {}
       ELSE {VideoLecturerRow(The(d.video).id, l.id) :
                l \in Range(The(d.video).lecturers)}
SubRowsOf(chapter_id) ==
    {SubchapterRow(sub, chapter_id) : sub \in Range(ApiSubchapters(chapter_id))}

(* Every row of the subtree of one subchapter is stored *)
SubDetailStored(course_slug, sub) ==
    /\ VideosOfSub(course_slug, sub) \subseteq videos
    /\ LecturersOfSub(course_slug, sub) \subseteq lecturers
    /\ LinksOfSub(course_slug, sub) \subseteq video_lecturers

(* No upsert of the subtree of one subchapter failed *)
SubDetailClean(course_slug, sub) ==
    \A f \in failedUpserts :
        f[2] \notin VideosOfSub(course_slug, sub)
                      \cup LecturersOfSub(course_slug, sub)
                      \cup LinksOfSub(course_slug, sub)

ChapterStored(course_slug, chapter_id) ==
    /\ SubRowsOf(chapter_id) \subseteq subchapters
    /\ \A sub \in Range(ApiSubchapters(chapter_id)) :
          SubDetailStored(course_slug, sub)

(* No request and no upsert of the branch of one chapter failed *)
ChapterClean(course_slug, chapter_id) ==
    /\ FetchedOk("subchapters", chapter_id)
    /\ \A f \in failedUpserts : f[2] \notin SubRowsOf(chapter_id)
    /\ \A sub \in Range(ApiSubchapters(chapter_id)) :
          /\ FetchedOk("detail", <<course_slug, sub.subchapter_slug>>)
          /\ SubDetailClean(course_slug, sub)

ContentRowsOf(course_slug) ==
    {ChapterRow(ch, course_slug) : ch \in Range(ApiChapters(course_slug))}
BookRowsOf(course_slug) ==
    {BookRow(b, course_slug) : b \in Range(ApiBooks(course_slug))}

CourseStored(course_slug) ==
    /\ ContentRowsOf(course_slug) \subseteq chapters
    /\ BookRowsOf(course_slug) \subseteq books
    /\ \A ch \in Range(ApiChapters(course_slug)) :
          ChapterStored(course_slug, ch.chapter_id)

CourseClean(course_slug) ==
    /\ FetchedOk("content", course_slug)
    /\ \A f \in failedUpserts :
          f[2] \notin ContentRowsOf(course_slug) \cup BookRowsOf(course_slug)
    /\ \A ch \in Range(ApiChapters(course_slug)) :
          ChapterClean(course_slug, ch.chapter_id)

(* C9: scrape_all never aborts, and once it has returned: a chapter whose
   subchapter request raised has no subchapter row while a sibling chapter
   whose branch met no failure is stored whole; the same for a course whose
   content request raised beside a sibling course, and for a subchapter
   whose detail request failed beside a sibling subchapter. *)
C9_BranchIsolation ==
    /\ main.pc # "aborted"
    /\ main.pc = "done" =>
         \A c \in Range(ApiCourses) :
            /\ \A a, b \in Range(ApiChapters(c.slug)) :
                  (/\ a # b
                   /\ FetchRaised("subchapters", b.chapter_id)
                   /\ ChapterClean(c.slug, a.chapter_id))
                  => /\ ChapterStored(c.slug, a.chapter_id)
                     /\ \A r \in subchapters : r.chapter_id # b.chapter_id
            /\ \A d \in Range(ApiCourses) :
                  (/\ c # d
                   /\ FetchRaised("content", d.slug)
                   /\ CourseClean(c.slug))
                  => /\ CourseStored(c.slug)
                     /\ \A r \in chapters : r.course_id # d.slug
                     /\ \A r \in books : r.course_id # d.slug
            /\ \A ch \in Range(ApiChapters(c.slug)) :
                 \A a, b \in Range(ApiSubchapters(ch.chapter_id)) :
                    (/\ a # b
                     /\ FetchFailed("detail", <<c.slug, b.subchapter_slug>>)
                     /\ FetchedOk("detail", <<c.slug, a.subchapter_slug>>)
                     /\ SubDetailClean(c.slug, a))
                    => /\ SubDetailStored(c.slug, a)
                       /\ \A r \in videos : r.subchapter_id # b.id

(* scrape_all returned after the subchapter request of the first chapter of
   the first course raised; the second chapter's subchapters, videos,
   lecturers and links are stored *)
C9_Witness ==
    /\ main.pc = "done"
    /\ FetchRaised("subchapters", ApiChapter(1, 1).chapter_id)
    /\ ChapterClean(ApiCourse(1).slug, ApiChapter(1, 2).chapter_id)
    /\ ChapterStored(ApiCourse(1).slug, ApiChapter(1, 2).chapter_id)
    /\ videos # {}
    /\ video_lecturers # {}
    /\ \A r \in subchapters : r.chapter_id # ApiChapter(1, 1).chapter_id

(* C10: in the full crawl the course-content work of the courses is
   dispatched through the concurrency runner, to run on pool threads. *)
C10_ContentThroughRunner ==
    \A e \in fetchLog : e.kind = "content" => e.thread = "pool"

ContentPhase == main.pc \in {"content", "insert_chapters", "insert_books"}

(* C10, amended: in scrape_all the course-content requests are made by the
   orchestrator thread, one course at a time and while no pool is open; only
   subchapter details are requested on pool threads, at most max_workers at
   a time. *)
C10_ContentSequential ==
    /\ \A e \in fetchLog : e.kind = "content" => e.thread = "main"
    /\ \A e \in fetchLog : e.thread = "pool" => e.kind = "detail"
    /\ ContentPhase => runPc = "idle" /\ InFlight = {}
    /\ Cardinality(InFlight) <= max_workers

(* the content of the second course is being stored by the orchestrator
   after the pools of the first course have been drained *)
C10_Witness ==
    /\ main.pc = "insert_chapters"
    /\ main.ci = 2
    /\ FetchedOk("content", ApiCourse(1).slug)
    /\ FetchedOk("content", ApiCourse(2).slug)
    /\ \E e \in fetchLog : e.kind = "detail" /\ e.thread = "pool"
    /\ workers # <<>>
    /\ InFlight = {}

(* The connections a thread has opened and not closed *)
LiveOf(t) == {c \in opened \ closed : OpenedBy(c) = t}

(* C15: a connection returned by get_connection is used only by the thread
   that opened it; a thread opens a connection on its first use and gets
   that one again on every later call (until it closes it), so it never has
   two open connections; no two threads hold the same connection. *)
C15_ThreadConfined ==
    /\ \A u \in usedBy : OpenedBy(u[2]) = u[1]
    /\ \A t \in DbThreads :
          /\ held[t] # None => OpenedBy(held[t]) = t
          /\ Cardinality(LiveOf(t)) <= 1
          /\ connPc[t] \in {"return", "use"} =>
                /\ IsConnection(local[Slot(t)])
                /\ LiveOf(t) = {local[Slot(t)]}
    /\ \A t, u \in DbThreads :
          (t # u /\ held[t] # None) =>
              /\ held[t] # held[u]
              /\ held[t] # local[Slot(u)]

(* both worker threads and the constructing thread have used a connection of
   their own, and a worker is about to use its connection a second time *)
C15_Witness ==
    /\ \A t \in DbThreads : \E u \in usedBy : u[1] = t
    /\ \E t \in DbThreads \ {ConstructingThread} :
          /\ connPc[t] = "use"
          /\ <<t, held[t]>> \in usedBy
    /\ \E t, u \in DbThreads : t # u /\ connPc[t] = "use" /\ connPc[u] = "use"

(* The tables in the order of the tuple tables *)
TableOrder == <<"courses", "chapters", "subchapters", "videos", "lecturers",
                "video_lecturers", "books">>

PrimaryKeys(t, table) == {PrimaryKey(t, r) : r \in table}

(* C11: when scrape_all has been run twice against the same failure-free
   API, every table holds after the second execution the same set of
   primary keys and the same number of rows as after the first, whatever the
   interleaving of the pool threads. *)
C11_CrawlIdempotent ==
    (execution = 2 /\ main.pc = "done") =>
        \A i \in DOMAIN TableOrder :
            /\ PrimaryKeys(TableOrder[i], tables[i])
                 = PrimaryKeys(TableOrder[i], afterFirst[i])
            /\ Cardinality(tables[i]) = Cardinality(afterFirst[i])

(* the second execution has completed on the tables the first one filled,
   with three pool threads having worked *)
C11_Witness ==
    /\ execution = 2
    /\ main.pc = "done"
    /\ max_workers > 1
    /\ Len(workers) > 1
    /\ \A i \in DOMAIN TableOrder : afterFirst[i] # {}
    /\ Cardinality(afterFirst[1]) = Len(ApiCourses)
    /\ tables = afterFirst

(* C12: whatever requests, validations and upserts fail, scrape_all
   eventually reaches its completion report, and no failure leaves it as an
   exception. *)
C12_CrawlCompletes ==
    /\ <>(main.pc = "done")
    /\ [](main.pc # "aborted")

(* scrape_all has printed its completion time after the subchapter list of
   the first chapter failed its validation and the other chapters were
   crawled *)
C12_Witness ==
    /\ main.pc = "done"
    /\ faults = MaxFaults
    /\ \E e \in fetchLog : /\ e.kind = "subchapters"
                            /\ e.key = ApiChapter(1, 1).chapter_id
                            /\ e.outcome = "invalid"
    /\ FetchedOk("subchapters", ApiChapter(2, 1).chapter_id)
    /\ videos # {}

(* The requests of one kind made so far *)
Fetches(kind) == {e \in fetchLog : e.kind = kind}

(* insert_subchapter has been called for every subchapter of the list of
   this chapter: the row is stored, or the call is among the failed ones *)
SubchaptersUpserted(chapter_id) ==
    \A r \in SubRowsOf(chapter_id) :
        r \in subchapters \/ <<"subchapters", r>> \in failedUpserts

(* C13: course content is requested only for a course of the course list a
   successful request returned; a chapter's subchapter list only for a
   chapter a successful content request of its course returned; a
   subchapter's detail only for a subchapter a successful list request of
   its chapter returned, and only once insert_subchapter has been called for
   the whole list; a parent whose request failed has no child request. *)
C13_ParentDriven ==
    /\ \A e \in Fetches("content") :
          /\ FetchedOk("courses", <<>>)
          /\ \E c \in Range(ApiCourses) : c.slug = e.key
    /\ \A e \in Fetches("subchapters") :
          \E c \in Range(ApiCourses) :
             /\ FetchedOk("content", c.slug)
             /\ \E ch \in Range(ApiChapters(c.slug)) : ch.chapter_id = e.key
    /\ \A e \in Fetches("detail") :
          \E c \in Range(ApiCourses) :
             \E ch \in Range(ApiChapters(c.slug)) :
                /\ e.key[1] = c.slug
                /\ FetchedOk("content", c.slug)
                /\ FetchedOk("subchapters", ch.chapter_id)
                /\ \E sub \in Range(ApiSubchapters(ch.chapter_id)) :
                      sub.subchapter_slug = e.key[2]
                /\ SubchaptersUpserted(ch.chapter_id)
    /\ FetchFailed("courses", <<>>) => Fetches("content") = {}
    /\ \A c \in Range(ApiCourses) :
          /\ FetchFailed("content", c.slug) =>
                \A ch \in Range(ApiChapters(c.slug)) :
                   /\ ~ \E e \in Fetches("subchapters") : e.key = ch.chapter_id
                   /\ \A sub \in Range(ApiSubchapters(ch.chapter_id)) :
                         ~ \E e \in Fetches("detail") :
                              e.key = <<c.slug, sub.subchapter_slug>>
          /\ \A ch \in Range(ApiChapters(c.slug)) :
                FetchFailed("subchapters", ch.chapter_id) =>
                   \A sub \in Range(ApiSubchapters(ch.chapter_id)) :
                      ~ \E e \in Fetches("detail") :
                           e.key = <<c.slug, sub.subchapter_slug>>

(* a detail is being requested on a pool thread for a chapter of the first
   course, after the list request of its sibling chapter failed *)
C13_Witness ==
    /\ FetchFailed("subchapters", ApiChapter(1, 1).chapter_id)
    /\ FetchedOk("subchapters", ApiChapter(1, 2).chapter_id)
    /\ SubRowsOf(ApiChapter(1, 2).chapter_id) \subseteq subchapters
    /\ \E e \in Fetches("detail") :
          e.key = <<ApiCourse(1).slug, ApiSubchapter(1, 2, 1).subchapter_slug>>
    /\ \E k \in DOMAIN task : task[k].pc = "fetch"

(* The rows scrape_subchapter_detail writes for one subchapter *)
DetailRowsOf(course_slug, sub) ==
    {<<"videos", r>> : r \in VideosOfSub(course_slug, sub)}
      \cup {<<"lecturers", r>> : r \in LecturersOfSub(course_slug, sub)}
      \cup {<<"video_lecturers", r>> : r \in LinksOfSub(course_slug, sub)}

(* The detail of a subchapter has been requested and, when it arrived, each
   of its upserts has been made: the row is stored or the call failed *)
DetailWorkDone(course_slug, sub) ==
    /\ \E e \in Fetches("detail") :
          e.key = <<course_slug, sub.subchapter_slug>>
    /\ FetchedOk("detail", <<course_slug, sub.subchapter_slug>>) =>
          \A tr \in DetailRowsOf(course_slug, sub) :
              tr[2] \in TableOf(tr[1]) \/ tr \in failedUpserts

(* C14: run_with_concurrency_dict has returned only when every invocation it
   submitted has finished; so when scrape_chapter_subchapters_with_details
   returns, the detail requests and the video, lecturer and link upserts of
   the chapter are done, and while the orchestrator of a running scrape_all
   is outside the runner no pooled work is running. *)
C14_PoolDrained ==
    /\ runPc = "returned" =>
          /\ \A k \in Keys : futures[k] = "finished" /\ invoked[k] = 1
          /\ workQueue = <<>>
          /\ InFlight = {}
          /\ \A k \in DOMAIN task : task[k].pc = "done"
          /\ main.pc = "in_runner" =>
                \A sub \in Range(subList) : DetailWorkDone(Course.slug, sub)
    /\ main.pc \notin {"in_runner", "idle"} =>
          /\ InFlight = {}
          /\ workQueue = <<>>
          /\ \A k \in DOMAIN task : task[k].pc = "done"

(* the orchestrator requests the subchapter list of the second chapter of
   the first course after the pool of the first chapter, which had run two
   tasks on two threads, was drained *)
C14_Witness ==
    /\ main.pc = "subchapters"
    /\ main.ci = 1
    /\ main.chi = 2
    /\ Len(workers) = 2
    /\ DOMAIN task = 1..2
    /\ \A sub \in Range(ApiSubchapters(ApiChapter(1, 1).chapter_id)) :
          FetchedOk("detail", <<ApiCourse(1).slug, sub.subchapter_slug>>)

(* get_subchapter_detail returned None, or a detail whose video is None *)
NoVideo(d) == d = Absent \/ The(d).video = Absent

(* Task k has left scrape_subchapter_detail with nothing to store: none of
   the rows of its subchapter's video is stored or was refused, its future
   holds the pair (slug, detail), and once the runner has handled the future
   the pair is the result under its key *)
BenignNoOp(k) ==
    LET sub == subList[k]
    IN /\ \A r \in videos : r.subchapter_id # sub.id
       /\ VideosOfSub(Course.slug, sub) \cap videos = {}
       /\ LinksOfSub(Course.slug, sub) \cap video_lecturers = {}
       /\ \A f \in failedUpserts :
             /\ f[2] \notin VideosOfSub(Course.slug, sub)
             /\ f[2] \notin LinksOfSub(Course.slug, sub)
       /\ task[k].pc = "done" =>
             /\ futures[k] = "finished"
             /\ futOutcome[k] = <<"result", sub.subchapter_slug, task[k].detail>>
       /\ k \in yielded =>
             /\ k \in DOMAIN results
             /\ results[k] = <<"result", sub.subchapter_slug, task[k].detail>>

(* C16: a task whose detail request returned nothing, or a detail without a
   video, goes from the request straight to its return without a write to
   any table, stores no video, lecturer or link row, and ends as a completed
   future whose result the runner records. *)
C16_NoVideoNoOp ==
    /\ [](main.pc = "in_runner" =>
            \A k \in DOMAIN task :
               (task[k].pc \in {"return", "done"} /\ NoVideo(task[k].detail))
                  => BenignNoOp(k))
    /\ [][\A k \in DOMAIN task :
             (/\ task[k].pc = "fetch"
              /\ task'[k].pc # "fetch"
              /\ NoVideo(task'[k].detail))
                => /\ task'[k].pc = "return"
                   /\ UNCHANGED tables
                   /\ UNCHANGED failedUpserts]_vars
    /\ [][\A k \in DOMAIN task :
             (task[k].pc = "return" /\ task'[k].pc # "return")
                => /\ task'[k].pc = "done"
                   /\ UNCHANGED tables]_vars

(* the runner has recorded the result of a task whose detail had no video,
   and that of a task whose detail request failed *)
C16_Witness ==
    /\ main.pc = "in_runner"
    /\ main.ci = 2
    /\ yielded = {1, 2}
    /\ task[1].detail = Absent
    /\ FetchFailed("detail", <<Course.slug, subList[1].subchapter_slug>>)
    /\ task[2].detail # Absent
    /\ The(task[2].detail).video = Absent
    /\ DOMAIN results = {1, 2}
    /\ videos # {}

(* The detail of task k has arrived and holds a video *)
HasVideo(k) == ~NoVideo(task[k].detail)

(* The insert_* call for row r of table t has been made: the row is stored,
   or the call returned False *)
Made(t, r) == r \in TableOf(t) \/ <<t, r>> \in failedUpserts

(* Where task k stands in the loop over the lecturers of its video: the
   lecturer with index l has been upserted, its link has been upserted *)
LecturerDone(k, l) ==
    \/ task[k].pc \in {"return", "done"}
    \/ l < task[k].li
    \/ l = task[k].li /\ task[k].pc = "insert_link"
LinkDone(k, l) ==
    \/ task[k].pc \in {"return", "done"}
    \/ l < task[k].li

(* C17: a task whose detail holds a video upserts the video under the video
   id with the subchapter's id as its subchapter reference, so that at most
   one row has that id; then, lecturer by lecturer, the lecturer row and
   after it the link (video id, lecturer id). Nothing of the video is
   stored before the video's upsert, and no link before its lecturer's. *)
C17_VideoPersistence ==
    main.pc = "in_runner" =>
       \A k \in DOMAIN task :
          (HasVideo(k) /\ task[k].pc # "fetch") =>
             LET sub == subList[k]
                 d == The(task[k].detail)
                 v == The(d.video)
                 row == VideoRow(v, d.id)
                 links == {r \in video_lecturers : r.video_id = v.id}
             IN /\ d.id = sub.id
                /\ row.id = v.id
                /\ row.subchapter_id = sub.id
                /\ \A r \in videos : r.id = v.id => r = row
                /\ IF task[k].pc = "insert_video"
                     THEN /\ row \notin videos
                          /\ links = {}
                     ELSE /\ Made("videos", row)
                          /\ <<"videos", row>> \notin failedUpserts =>
                                Cardinality({r \in videos : r.id = v.id}) = 1
                /\ \A l \in DOMAIN v.lecturers :
                      LET lrow == LecturerRow(v.lecturers[l])
                          link == VideoLecturerRow(v.id, v.lecturers[l].id)
                      IN /\ LecturerDone(k, l) => Made("lecturers", lrow)
                         /\ LinkDone(k, l) => Made("video_lecturers", link)
                         /\ link \in links =>
                               /\ LinkDone(k, l)
                               /\ Made("lecturers", lrow)

(* the second subchapter of a chapter of the first course is done: its
   video, both its lecturers and both links are stored *)
C17_Witness ==
    /\ main.pc = "in_runner"
    /\ main.ci = 1
    /\ 2 \in DOMAIN task
    /\ task[2].pc = "done"
    /\ HasVideo(2)
    /\ Len(The(The(task[2].detail).video).lecturers) = 2
    /\ VideosOfSub(Course.slug, subList[2]) \subseteq videos
    /\ LecturersOfSub(Course.slug, subList[2]) \subseteq lecturers
    /\ LinksOfSub(Course.slug, subList[2]) \subseteq video_lecturers
    /\ Cardinality(LinksOfSub(Course.slug, subList[2])) = 2

(* The detail request of the current pool's entry k raised in request(): a
   timeout of httpx.Client, or another httpx.HTTPError *)
TimedOut(k) ==
    FetchRaised("detail", <<Course.slug, subList[k].subchapter_slug>>)

(* C18: when the request of a pooled unit of work times out, the runner
   records the unit's key as a failure and not as a successful result. *)
C18_TimeoutAsFailure ==
    main.pc = "in_runner" =>
       \A k \in yielded :
          TimedOut(k) => /\ IsException(futOutcome[k])
                         /\ k \notin DOMAIN results

(* C18, amended: the timeout is caught inside the unit of work, by
   get_subchapter_detail, and the unit returns (slug, None); the runner
   stores that pair under the unit's key as an ordinary result. scrape_all
   is not aborted, and when the runner returns every key has its result and
   each sibling whose own request and upserts went through is stored. *)
C18_TimeoutAsNoResult ==
    /\ main.pc # "aborted"
    /\ main.pc = "in_runner" =>
          /\ \A k \in DOMAIN task :
                (TimedOut(k) /\ task[k].pc = "done") =>
                   /\ ~IsException(futOutcome[k])
                   /\ futOutcome[k] = <<"result", subList[k].subchapter_slug,
                                        Absent>>
                   /\ k \in yielded => /\ k \in DOMAIN results
                                       /\ results[k] = futOutcome[k]
          /\ runPc = "returned" =>
                /\ DOMAIN results = DOMAIN subList
                /\ \A k, j \in DOMAIN subList :
                      (/\ TimedOut(k)
                       /\ j # k
                       /\ FetchedOk("detail",
                                    <<Course.slug, subList[j].subchapter_slug>>)
                       /\ SubDetailClean(Course.slug, subList[j]))
                      => /\ SubDetailStored(Course.slug, subList[j])
                         /\ results[j][3] # Absent

(* the runner has returned the results of a chapter of the first course:
   the first unit's request timed out, the second unit's video is stored *)
C18_Witness ==
    /\ main.pc = "in_runner"
    /\ main.ci = 1
    /\ runPc = "returned"
    /\ TimedOut(1)
    /\ results[1][3] = Absent
    /\ results[2][3] # Absent
    /\ VideosOfSub(Course.slug, subList[2]) \subseteq videos
    /\ VideosOfSub(Course.slug, subList[2]) # {}

(* The requests made so far for one resource *)
FetchesOf(kind, key) == {e \in Fetches(kind) : e.key = key}

(* C19: in one execution of scrape_all the course list, the content of a
   course, the subchapter list of a chapter and the detail of a subchapter
   are each requested at most once, a request that failed is not made
   again, and the runner invokes each unit of work once. *)
C19_NoRetry ==
    /\ \A e \in fetchLog :
          /\ e.n = 1
          /\ Cardinality(FetchesOf(e.kind, e.key)) = 1
          /\ e.outcome # "ok" => ~FetchedOk(e.kind, e.key)
    /\ \A k \in DOMAIN invoked : invoked[k] <= 1

(* scrape_all has completed with twelve requests made, one for each
   resource of the API, the detail request that failed included *)
C19_Witness ==
    /\ main.pc = "done"
    /\ \E e \in Fetches("detail") : e.outcome # "ok"
    /\ Cardinality(fetchLog) = 12
    /\ Cardinality(Fetches("detail")) = 6

(* C20: once scrape_all has completed, every entity of every successful
   request has had its upsert made, whether or not the upsert of a sibling
   entity failed, and every child request of the branch has been made: a
   failed insert_course leaves the other courses stored and the content of
   all courses requested, a failed insert_lecturer leaves the remaining
   lecturers and links stored. *)
C20_UpsertFailureContained ==
    (main.pc = "done" /\ FetchedOk("courses", <<>>)) =>
       \A c \in Range(ApiCourses) :
          /\ Made("courses", CourseRow(c))
          /\ FetchesOf("content", c.slug) # {}
          /\ FetchedOk("content", c.slug) =>
                /\ \A r \in ContentRowsOf(c.slug) : Made("chapters", r)
                /\ \A r \in BookRowsOf(c.slug) : Made("books", r)
                /\ \A ch \in Range(ApiChapters(c.slug)) :
                      /\ FetchesOf("subchapters", ch.chapter_id) # {}
                      /\ FetchedOk("subchapters", ch.chapter_id) =>
                            /\ \A r \in SubRowsOf(ch.chapter_id) :
                                  Made("subchapters", r)
                            /\ \A sub \in Range(ApiSubchapters(ch.chapter_id)) :
                                  DetailWorkDone(c.slug, sub)

(* scrape_all has completed after one insert_lecturer call failed: all
   seven links and all five videos are stored *)
C20_Witness ==
    /\ main.pc = "done"
    /\ \E f \in failedUpserts : f[1] = "lecturers"
    /\ Cardinality(video_lecturers) = 7
    /\ Cardinality(videos) = 5
    /\ Cardinality(courses) = Len(ApiCourses)

(* the videos that the join path Course - Chapter - Subchapter - Video
   reaches from the course with this slug *)
ReachableVideos(course_slug) ==
    {v \in videos :
        \E c \in courses, ch \in chapters, s \in subchapters :
            /\ c.slug = course_slug
            /\ ch.course_id = c.slug
            /\ s.chapter_id = ch.id
            /\ v.subchapter_id = s.id}

SortKey(row) == row.chapter_order * 10 + row.subchapter_order

(* C21: get_course_videos(s) returns each Video row that the join Course -
   Chapter - Subchapter - Video reaches for the course s exactly once and no
   other row, in ascending order of (chapter order, subchapter order). *)
C21_OrderedListing ==
    dl.pc = "listed" =>
        /\ {listing[n].video_id : n \in DOMAIN listing}
              = {v.id : v \in ReachableVideos(dl.course_slug)}
        /\ Len(listing) = Cardinality(ReachableVideos(dl.course_slug))
        /\ \A m, n \in DOMAIN listing :
              m < n => SortKey(listing[m]) <= SortKey(listing[n])

(* three subchapters of one chapter stored with orders 2, 0, 1 and listed as
   0, 1, 2 *)
C21_Witness ==
    /\ dl.pc = "listed"
    /\ Len(listing) = 3
    /\ \A r \in subchapters :
          r.id \in 1..3 => r.order_index = (r.id + 1) % 3
    /\ [n \in 1..3 |-> listing[n].subchapter_id] = <<2, 3, 1>>
    /\ [n \in 1..3 |-> listing[n].subchapter_order] = <<0, 1, 2>>

(* C22: every Subchapter row is referenced by at most one Video row. *)
C22_OneVideoPerSubchapter ==
    \A s \in subchapters :
        Cardinality({v \in videos : v.subchapter_id = s.id}) <= 1

(* the branch of main() that the flags select *)
ScrapeRuns == ~cli.stats /\ cli.scrape
StatsRuns == cli.stats
DownloadRuns == ~cli.stats /\ ~cli.scrape /\ cli.download

(* DB_PATH did not exist when main() looked (or would look now) *)
NoDatabase == IF cli.pc = "main" THEN ~dbFile ELSE ~cli.db_exists

(* C23: a process running --scrape without an API token issues no HTTP
   request, constructs no DatabaseManager, writes nothing to the store and
   ends in check_token with exit status 1; a process running --stats or
   --download with no database file makes no query, starts no download and
   creates no store before it ends. *)
C23_StartupErrorsFirst ==
    /\ [](ScrapeRuns /\ ~cli.token =>
            /\ cli.pc \in {"main", "check_token", "exited"}
            /\ cli.pc = "exited" => cli.status = "exit 1"
            /\ fetchLog = {}
            /\ main.pc = "idle"
            /\ cli.managers = 0)
    /\ []((StatsRuns \/ DownloadRuns) /\ NoDatabase =>
            /\ cli.pc \in {"main", "ended"}
            /\ ~cli.queried
            /\ ~cli.downloads
            /\ cli.managers = 0
            /\ ~dbFile)
    /\ [][ScrapeRuns /\ ~cli.token => tables' = tables /\ dbFile' = dbFile]_vars

(* --scrape without a token has exited, on a database that an earlier
   process filled *)
C23_Witness ==
    /\ ScrapeRuns
    /\ ~cli.token
    /\ cli.pc = "exited"
    /\ dbFile
    /\ videos # {}

(* C30: every DatabaseManager constructed has run setup_database exactly
   once; scrape_all has constructed its one DatabaseManager, schema included,
   before the first request, the first insert_* call and the first worker
   thread; and a run of setup_database leaves every table as it was. *)
C30_SchemaBeforeWorkers ==
    /\ [](cli.setups = cli.managers)
    /\ [](main.pc # "idle" \/ workers # <<>> \/ fetchLog # {} =>
            cli.setups = 1)
    /\ [][tables' # tables => cli.setups = 1 /\ cli'.setups = 1]_vars
    /\ [][cli'.setups = cli.setups + 1 => tables' = tables]_vars

(* the second process has constructed its DatabaseManager on the database the
   first one filled, and its first pool has spawned a worker *)
C30_Witness ==
    /\ execution = 2
    /\ cli.pc = "scraping"
    /\ cli.setups = 1
    /\ main.pc = "in_runner"
    /\ main.ci = 1
    /\ workers # <<>>
    /\ \E r \in subchapters : r.id[2] = 2

(* C24: every unlink of an output file directly follows an rclone upload of
   the same file, in the same iteration, that returned 0, with
   DELETE_AFTER_UPLOAD (and RCLONE_ENABLED) set; and a file leaves the local
   disk only by such an unlink. *)
C24_DeleteAfterUpload ==
    /\ [](\A n \in DOMAIN dlLog :
            dlLog[n].op = "unlink" =>
                /\ dl.DELETE_AFTER_UPLOAD
                /\ dl.RCLONE_ENABLED
                /\ n > 1
                /\ dlLog[n - 1].op = "rclone"
                /\ dlLog[n - 1].i = dlLog[n].i
                /\ dlLog[n - 1].rc = "zero")
    /\ [][files \ files' # {} =>
            /\ files \ files' = {dl.i}
            /\ dl.pc = "unlink"
            /\ dl.upload_success
            /\ Len(dlLog') = Len(dlLog) + 1
            /\ dlLog'[Len(dlLog')] = [op |-> "unlink", i |-> dl.i,
                                      rc |-> "zero"]]_vars

(* one file uploaded and deleted, and another one kept after its upload
   failed, in one run *)
C24_Witness ==
    /\ dl.pc = "returned"
    /\ \E n \in DOMAIN dlLog :
          /\ dlLog[n].op = "unlink"
          /\ dlLog[n].rc = "zero"
          /\ dlLog[n].i \notin files
    /\ \E n \in DOMAIN dlLog :
          /\ dlLog[n].op = "rclone"
          /\ dlLog[n].rc # "zero"
          /\ dlLog[n].i \in files

(* the ffmpeg runs of iteration i, in order *)
FfmpegRuns(i) ==
    LET OfIteration(e) == e.i = i /\ e.op \in {"ffmpeg_direct", "ffmpeg_drm"}
    IN SelectSeq(dlLog, OfIteration)

DrmAvailable(video) == video.drm_video_url # None /\ video.drm_token # None

(* C25: in every call of _download_video, ffmpeg runs on the direct URL
   first when the row has one; it runs on the DRM URL only when the row has
   DRM URL and DRM token and the direct run was not made or did not return 0;
   no run follows a run that returned 0; and the call returns True exactly
   when one of its runs returned 0 (so False when no variant is available). *)
C25_VariantOrder ==
    /\ \A i \in DOMAIN listing :
          LET a == FfmpegRuns(i)
              video == listing[i]
          IN /\ Len(a) <= 2
             /\ \A n \in DOMAIN a :
                   /\ a[n].op = "ffmpeg_direct" =>
                         n = 1 /\ video.video_url # None
                   /\ a[n].op = "ffmpeg_drm" =>
                         /\ DrmAvailable(video)
                         /\ \/ n = 1 /\ video.video_url = None
                            \/ /\ n = 2
                               /\ a[1].op = "ffmpeg_direct"
                               /\ a[1].rc # "zero"
                   /\ a[n].rc = "zero" => n = Len(a)
    /\ dl.pc = "downloaded" =>
          LET a == FfmpegRuns(dl.i)
              video == listing[dl.i]
          IN /\ dl.success <=> \E n \in DOMAIN a : a[n].rc = "zero"
             /\ video.video_url # None =>
                   a # <<>> /\ a[1].op = "ffmpeg_direct"
             /\ DrmAvailable(video) /\ ~dl.success =>
                   a # <<>> /\ a[Len(a)].op = "ffmpeg_drm"
             /\ video.video_url = None /\ ~DrmAvailable(video) =>
                   a = <<>> /\ ~dl.success

(* _download_video has returned True after the direct run failed and the DRM
   run returned 0 *)
C25_Witness ==
    /\ dl.pc = "downloaded"
    /\ dl.success
    /\ Len(FfmpegRuns(dl.i)) = 2
    /\ FfmpegRuns(dl.i)[1] = [op |-> "ffmpeg_direct", i |-> dl.i,
                               rc |-> "nonzero"]
    /\ FfmpegRuns(dl.i)[2] = [op |-> "ffmpeg_drm", i |-> dl.i, rc |-> "zero"]

(* C26: with show_progress the counter of the progress bar equals the number
   of entries whose future as_completed has handed out, whether the entry
   returned or raised; it never exceeds the number of entries and equals it
   when the call has returned. *)
C26_ProgressAccounting ==
    show_progress =>
        /\ progress = Cardinality(yielded)
        /\ progress <= Cardinality(Keys)
        /\ runPc = "returned" => progress = Cardinality(Keys)

(* a call with progress has returned, with an entry that raised and an entry
   that returned a value *)
C26_Witness ==
    /\ show_progress
    /\ runPc = "returned"
    /\ Cardinality(Keys) >= 2
    /\ progress = Cardinality(Keys)
    /\ \E k \in Keys : IsException(futOutcome[k])
    /\ \E k \in Keys : ~IsException(futOutcome[k])

(* C27: a call of run_with_concurrency_dict with an empty mapping never
   enters the ThreadPoolExecutor block: no thread is started, nothing is
   submitted, func is not invoked, and the mapping returned is empty; and the
   subchapter scraper calls the runner only with a non-empty list. *)
C27_EmptyInput ==
    /\ runPc # "idle" /\ Keys = {} =>
          /\ runPc \in {"start", "returned"}
          /\ workers = <<>>
          /\ workQueue = <<>>
          /\ invoked = <<>>
          /\ results = <<>>
    /\ main.pc \in {"call_runner", "in_runner"} => subList # <<>>

(* the call with no entry has returned *)
C27_Witness ==
    /\ Keys = {}
    /\ runPc = "returned"
    /\ results = <<>>

(* the work units (process_subchapter calls) that have started and not
   returned *)
Executing == {k \in DOMAIN task : task[k].pc \notin {"queued", "done"}}

(* the orchestrator thread is itself fetching or storing *)
OrchestratorWorking ==
    main.pc \in {"start", "insert_courses", "content", "insert_chapters",
                 "insert_books", "subchapters", "insert_subchapters"}

(* C28: a pool exists only while the orchestrator is inside the one runner
   call of the current chapter, and the next one is opened only after no
   worker of the earlier one is busy; the orchestrator fetches and stores
   only while no work unit of a pool executes; so the units executing at one
   moment, the orchestrator's included, never outnumber max_workers. *)
C28_GlobalInFlightBound ==
    /\ runPc # "idle" <=> main.pc = "in_runner"
    /\ main.pc # "in_runner" \/ runPc = "returned" =>
          InFlight = {} /\ Executing = {}
    /\ Cardinality(Executing) = Cardinality(InFlight)
    /\ (IF OrchestratorWorking THEN 1 ELSE 0) + Cardinality(Executing)
          <= max_workers

(* the pool of the second chapter has every worker busy, entries are still
   queued, and the pool of the first chapter has long been drained *)
C28_Witness ==
    /\ main.pc = "in_runner"
    /\ main.chi = 2
    /\ Cardinality(Executing) = max_workers
    /\ \E k \in DOMAIN task : task[k].pc = "queued"
    /\ \E e \in fetchLog :
          e.kind = "detail" /\ e.key[2] = ApiSubchapter(1, 1, 1).subchapter_slug

(* C29: whenever a row appears in a table, it is the one row of the insert_*
   call made by that step, whole, and the call went through; so every stored
   row holds the values of one single call, never a mix of two calls or a
   part of one. *)
C29_AtomicRows ==
    [][\A t \in TableNames :
          TableOf(t)' \ TableOf(t) # {} =>
              /\ lastOp'.table = t
              /\ ~lastOp'.error
              /\ TableOf(t)' \ TableOf(t) = {lastOp'.row}]_vars

(* a second upsert of a video id with another url and another subchapter has
   replaced the row of the first *)
C29_Witness ==
    /\ opCount = 2
    /\ lastOp.table = "videos"
    /\ ~lastOp.error
    /\ lastOp.row \in videos
    /\ lastOp.deleted # {}
    /\ \A r \in lastOp.deleted :
          /\ r.id = lastOp.row.id
          /\ r.video_url # lastOp.row.video_url
          /\ r.subchapter_id # lastOp.row.subchapter_id

(* C31: the course_id of every Chapter row and of every Book row is the id
   of a Course row. *)
C31_CourseReferences ==
    /\ \A ch \in chapters : \E c \in courses : ch.course_id = c.id
    /\ \A b \in books : \E c \in courses : b.course_id = c.id

(* C32: every Subchapter row references a stored Chapter row, every Video
   row a stored Subchapter row, and every video-lecturer link a stored Video
   row and a stored Lecturer row. *)
C32_NoOrphans ==
    /\ \A s \in subchapters : \E ch \in chapters : s.chapter_id = ch.id
    /\ \A v \in videos : \E s \in subchapters : v.subchapter_id = s.id
    /\ \A l \in video_lecturers :
          /\ \E v \in videos : l.video_id = v.id
          /\ \E r \in lecturers : l.lecturer_id = r.id

(* C33: once the thread that constructed the DatabaseManager has run close()
   (__exit__ at the end of the with block of scrape_all), every connection
   that any thread opened through get_connection is closed. *)
C33_AllReleased ==
    local[ConstructingThread] = None /\ connPc[ConstructingThread] = "idle"
        => opened \subseteq closed

(* a list response that failed validation (one record of it did) *)
Invalid(kind, key) ==
    \E e \in fetchLog : e.kind = kind /\ e.key = key /\ e.outcome = "invalid"

(* C34: after a course list that failed validation no course is stored and
   no other request is made; after a course content that failed validation
   neither a chapter nor a book of that course is stored and no subchapter
   list of it is requested; after a subchapter list that failed validation
   no subchapter of that chapter is stored; and the run is never aborted but
   goes on to its end. *)
C34_ListsAllOrNothing ==
    /\ [](Invalid("courses", <<>>) =>
            /\ courses = {}
            /\ fetchLog = Fetches("courses")
            /\ main.pc \in {"close", "done"})
    /\ [](\A c \in Range(ApiCourses) :
            Invalid("content", c.slug) =>
                /\ ContentRowsOf(c.slug) \cap chapters = {}
                /\ BookRowsOf(c.slug) \cap books = {}
                /\ \A ch \in Range(ApiChapters(c.slug)) :
                      FetchesOf("subchapters", ch.chapter_id) = {})
    /\ [](\A c \in Range(ApiCourses) :
            \A ch \in Range(ApiChapters(c.slug)) :
                Invalid("subchapters", ch.chapter_id) =>
                    SubRowsOf(ch.chapter_id) \cap subchapters = {})
    /\ [](main.pc # "aborted")
    /\ ((\E e \in fetchLog : e.outcome = "invalid") ~> main.pc = "done")

(* the run has ended after the content of the first course failed
   validation: its chapters and books are missing, the second course is
   stored *)
C34_Witness ==
    /\ main.pc = "done"
    /\ Invalid("content", ApiCourse(1).slug)
    /\ BookRowsOf(ApiCourse(1).slug) # {}
    /\ ContentRowsOf(ApiCourse(2).slug) \subseteq chapters
    /\ subchapters # {}

(* the iteration of the current video has not ended *)
InIteration ==
    dl.pc \in {"exists", "direct", "drm", "downloaded", "upload", "unlink"}

(* C35: ffmpeg is run only for a video whose output file does not exist, and
   a video whose output file does not exist is always handed to
   _download_video; the progress bar has advanced once for every video whose
   iteration has ended, whichever path it took; and the loop ends only after
   the last listed video, whatever failed before. *)
C35_SkipExisting ==
    /\ [][Len(dlLog') > Len(dlLog)
            /\ dlLog'[Len(dlLog')].op \in {"ffmpeg_direct", "ffmpeg_drm"}
              => dl.i \notin files]_vars
    /\ [][dl.pc = "exists" =>
            (dl'.pc = "direct" <=> dl.i \notin files)]_vars
    /\ [](dl.pc # "idle" /\ dl.pc # "start" =>
            /\ dl.advanced = IF InIteration THEN dl.i - 1 ELSE dl.i
            /\ dl.pc = "returned" => dl.advanced = Len(listing))
    /\ [][dl'.advanced # dl.advanced => dl'.advanced = dl.advanced + 1]_vars

(* the run has ended after a video whose download failed and a later video
   that was downloaded *)
C35_Witness ==
    /\ dl.pc = "returned"
    /\ dl.advanced = Len(listing)
    /\ Len(listing) >= 2
    /\ \E i \in DOMAIN listing :
          /\ FfmpegRuns(i) # <<>>
          /\ \A n \in DOMAIN FfmpegRuns(i) : FfmpegRuns(i)[n].rc # "zero"
          /\ \E j \in DOMAIN listing :
                /\ j > i
                /\ \E n \in DOMAIN FfmpegRuns(j) : FfmpegRuns(j)[n].rc = "zero"

====
